---- MODULE Spec2Model ----
(***************************************************************************)
(* Delran BOE preschool monitor: the run orchestrator of scripts/scraper.py *)
(* (main), its persisted dedupe state (state.json) and the date window.     *)
(*                                                                          *)
(* Text is modelled by TLC strings.  A datetime is a record [y, m, d, s]    *)
(* (year, month, day, second of the day), compared through DtLeq.  The SHA-1*)
(* digest is modelled as injective on its input byte string: sha1_of is the *)
(* concatenation of its parts.  The persisted seen_hashes list is only ever *)
(* read through set(...) and written as sorted(set(...)), so it is kept as  *)
(* a set.                                                                   *)
(***************************************************************************)
EXTENDS Integers, Sequences, FiniteSets, TLC

(***************************************************************************)
(* Bounds of the model                                                      *)
(***************************************************************************)
MaxRuns == 2
MaxItems == 2
MaxOptions == 1
MaxTokens == 4
MaxTargetLen == 3
MaxParts == 3
MaxCands == 2
MaxEdges == 2
MaxPages == 3
MaxDepth == 1

(***************************************************************************)
(* Program constants                                                        *)
(***************************************************************************)
FP_SNIPPET_PREFIX == 160
EPOCH_YEAR == 2021

NoYear == -1        \* YEAR / MIN_YEAR unset (None)

(***************************************************************************)
(* Datetimes                                                                *)
(***************************************************************************)
Dt(y, m, d, s) == [y |-> y, m |-> m, d |-> d, s |-> s]
NoDate == Dt(0, 0, 0, 0)      \* Optional[datetime] = None

DayKey(dt) == (dt.y * 100 + dt.m) * 100 + dt.d
DtLeq(a, b) == \/ DayKey(a) < DayKey(b)
               \/ DayKey(a) = DayKey(b) /\ a.s <= b.s

Pad2(n) == IF n < 10 THEN "0" \o ToString(n) ELSE ToString(n)

\* date.isoformat(): YYYY-MM-DD
DateIso(dt) == ToString(dt.y) \o "-" \o Pad2(dt.m) \o "-" \o Pad2(dt.d)

\* datetime.isoformat() at second resolution: YYYY-MM-DDTHH:MM:SS
IsoFormat(dt) ==
    DateIso(dt) \o "T" \o Pad2(dt.s \div 3600) \o ":"
                \o Pad2((dt.s % 3600) \div 60) \o ":" \o Pad2(dt.s % 60)

first_day_of_month(dt) == [dt EXCEPT !.d = 1, !.s = 0]

(***************************************************************************)
(* The clock readings of the model (datetime.utcnow() of a run)             *)
(***************************************************************************)
Times == << Dt(2022, 3, 10, 43200), Dt(2022, 3, 20, 30600),
           Dt(2022, 4, 2, 0), Dt(2022, 4, 30, 86399) >>

(***************************************************************************)
(* Strings                                                                  *)
(***************************************************************************)
RECURSIVE Rep(_, _)
Rep(c, n) == IF n = 0 THEN ""
             ELSE IF n = 1 THEN c
             ELSE Rep(c, n \div 2) \o Rep(c, n - n \div 2)

Prefix(s, n) == IF Len(s) <= n THEN s ELSE SubSeq(s, 1, n)

\* one-character stand-ins for U+00A0 (no-break space) and U+2026 (ellipsis)
NBSP == "~"
ELLIPSIS == "^"

\* whitespace for str.strip() and for \s in a pattern
IsSpace(c) == c \in {" ", "\t", "\n", "\r", NBSP}

RECURSIVE LStrip(_)
LStrip(s) == IF Len(s) > 0 /\ IsSpace(SubSeq(s, 1, 1))
             THEN LStrip(SubSeq(s, 2, Len(s))) ELSE s

RECURSIVE RStrip(_)
RStrip(s) == IF Len(s) > 0 /\ IsSpace(SubSeq(s, Len(s), Len(s)))
             THEN RStrip(SubSeq(s, 1, Len(s) - 1)) ELSE s

Strip(s) == RStrip(LStrip(s))

\* variant: the URL is not hashed
sha1_of_nourl(url, keyword, snip) == keyword \o snip

\* sha1_of(*parts): the digest of the concatenated parts
sha1_of(url, keyword, snip) == url \o keyword \o snip

\* variant: the whole snippet is hashed
Fingerprint_whole(url, m) == sha1_of(url, m.keyword, m.snippet)

Fingerprint(url, m) == sha1_of(url, m.keyword, Prefix(m.snippet, FP_SNIPPET_PREFIX))

(***************************************************************************)
(* The document corpus.  A document is what discovery and extraction give   *)
(* main for one item: url, title, source, and, for its extracted text, the  *)
(* result of find_preschool_mentions (mentions) and of guess_meeting_date   *)
(* (meeting_dt, NoDate for None).  boarddocs: the URL is a BoardDocs file   *)
(* link, which both crawls can return.                                      *)
(***************************************************************************)
Mention(k, s) == [keyword |-> k, snippet |-> s]

LongSnip == Rep("a", FP_SNIPPET_PREFIX)

Corpus ==
    << [url |-> "u1", title |-> "Agenda", source |-> "district", boarddocs |-> FALSE,
        mentions |-> << Mention("lottery", "s4") >>,
        meeting_dt |-> Dt(2022, 3, 15, 0)],
       [url |-> "u2", title |-> "", source |-> "district-cdn", boarddocs |-> FALSE,
        mentions |-> << Mention("PreK", "s1") >>,
        meeting_dt |-> NoDate],
       [url |-> "u3", title |-> "Minutes", source |-> "boarddocs", boarddocs |-> TRUE,
        mentions |-> << Mention("PreK", "s1"),
                        Mention("UPK", LongSnip \o "x"),
                        Mention("UPK", LongSnip \o "y") >>,
        meeting_dt |-> Dt(2021, 5, 1, 0)],
       [url |-> "u4", title |-> "Budget", source |-> "district", boarddocs |-> FALSE,
        mentions |-> << >>,
        meeting_dt |-> Dt(2022, 3, 5, 0)] >>

DocIds == 1 .. Len(Corpus)
BoardDocIds == {d \in DocIds : Corpus[d].boarddocs}

MeetingDates == {Corpus[d].meeting_dt : d \in DocIds} \ {NoDate}

\* dateutil's parse of an ISO string produced by isoformat(); the second
\* component tells whether the parse succeeded
ParseIso(iso) ==
    IF \E dt \in MeetingDates : IsoFormat(dt) = iso
    THEN << CHOOSE dt \in MeetingDates : IsoFormat(dt) = iso, TRUE >>
    ELSE << NoDate, FALSE >>

ParseDateIso(iso) ==
    IF \E dt \in MeetingDates : DateIso(dt) = iso
    THEN << CHOOSE dt \in MeetingDates : DateIso(dt) = iso, TRUE >>
    ELSE << NoDate, FALSE >>

(***************************************************************************)
(* Configuration (module-level environment lookups of one process)          *)
(***************************************************************************)
B2N(b) == IF b THEN 1 ELSE 0

NumOptions(c) == B2N(c.IGNORE_DEDUPE) + B2N(c.FORCE_FULL_RESCAN)
                 + B2N(c.YEAR # NoYear) + B2N(c.MIN_YEAR # NoYear)

Configs ==
    {c \in [IGNORE_DEDUPE : BOOLEAN, FORCE_FULL_RESCAN : BOOLEAN,
            YEAR : {NoYear, 2021}, MIN_YEAR : {NoYear, 2022}] :
        NumOptions(c) <= MaxOptions}

DefaultWindowConfig(c) == c.YEAR = NoYear /\ ~c.FORCE_FULL_RESCAN

(***************************************************************************)
(* Date range calculation                                                   *)
(***************************************************************************)
\* variant: the incremental window starts at the current time
compute_run_range_today(st, today, c) ==
    IF c.YEAR # NoYear
    THEN [start |-> Dt(c.YEAR, 1, 1, 0), end |-> Dt(c.YEAR, 12, 31, 86399),
          is_backfill |-> TRUE]
    ELSE IF c.FORCE_FULL_RESCAN \/ ~st.backfill_done
    THEN [start |-> Dt(EPOCH_YEAR, 1, 1, 0), end |-> today, is_backfill |-> TRUE]
    ELSE [start |-> today, end |-> today, is_backfill |-> FALSE]

compute_run_range(st, today, c) ==
    IF c.YEAR # NoYear
    THEN [start |-> Dt(c.YEAR, 1, 1, 0), end |-> Dt(c.YEAR, 12, 31, 86399),
          is_backfill |-> TRUE]
    ELSE IF c.FORCE_FULL_RESCAN
    THEN [start |-> Dt(EPOCH_YEAR, 1, 1, 0), end |-> today, is_backfill |-> TRUE]
    ELSE IF ~st.backfill_done
    THEN [start |-> Dt(EPOCH_YEAR, 1, 1, 0), end |-> today, is_backfill |-> TRUE]
    ELSE [start |-> first_day_of_month(today), end |-> today, is_backfill |-> FALSE]

\* variant: a missing date is out of range
within_range_nodate(iso_dt, s, e) ==
    IF iso_dt = "" THEN FALSE
    ELSE LET p == ParseIso(iso_dt)
         IN  IF p[2] THEN DtLeq(s, p[1]) /\ DtLeq(p[1], e) ELSE TRUE

\* variant: the upper end of the window is not checked
within_range_open(iso_dt, s, e) ==
    IF iso_dt = "" THEN TRUE
    ELSE LET p == ParseIso(iso_dt)
         IN  IF p[2] THEN DtLeq(s, p[1]) ELSE TRUE

\* iso_dt = "" stands for None
within_range(iso_dt, s, e) ==
    IF iso_dt = "" THEN TRUE
    ELSE LET p == ParseIso(iso_dt)
         IN  IF p[2] THEN DtLeq(s, p[1]) /\ DtLeq(p[1], e) ELSE TRUE

(***************************************************************************)
(* State file                                                               *)
(***************************************************************************)
NullEnd == "null"

EmptyState == [seen_hashes |-> {}, backfill_done |-> FALSE,
               last_run_end |-> NullEnd, bad_list |-> FALSE]

\* kind: "absent", "corrupt" (unreadable or not JSON), "nonobject" (JSON
\* that is not an object), "object"
FileOf(kind, data) == [kind |-> kind, data |-> data]

load_state(f) == IF f.kind = "object" THEN f.data ELSE EmptyState

\* variant: the new fingerprints are not merged
update_state_forget(st, c, hashes, backfill, e) ==
    [st EXCEPT
       !.backfill_done = IF backfill THEN TRUE ELSE @,
       !.last_run_end = IsoFormat(e)]

\* variant: the new fingerprints replace the old ones
update_state_replace(st, c, hashes, backfill, e) ==
    [st EXCEPT
       !.seen_hashes = IF ~c.IGNORE_DEDUPE /\ hashes # {} THEN hashes ELSE @,
       !.backfill_done = IF backfill THEN TRUE ELSE @,
       !.last_run_end = IsoFormat(e)]

\* variant: backfill_done is not set
update_state_nobackfill(st, c, hashes, backfill, e) ==
    [st EXCEPT
       !.seen_hashes = IF ~c.IGNORE_DEDUPE /\ hashes # {}
                       THEN st.seen_hashes \cup hashes ELSE @,
       !.last_run_end = IsoFormat(e)]

update_state(st, c, hashes, backfill, e) ==
    [st EXCEPT
       !.seen_hashes = IF ~c.IGNORE_DEDUPE /\ hashes # {}
                       THEN st.seen_hashes \cup hashes ELSE @,
       !.backfill_done = IF backfill THEN TRUE ELSE @,
       !.last_run_end = IsoFormat(e)]

(***************************************************************************)
(* Per-document processing of main's scan loop                              *)
(***************************************************************************)
\* the results of extract_text_for_url: it raised, it returned "", or it
\* returned the document's text
ExtractResults == {"raise", "empty", "text"}

\* what happens when extract_text_for_url fetches and extracts one item
FetchOutcomes == {"fetch failed", "extract raised", "no text", "text"}

\* extract_text_for_url: a failed fetch is caught inside and gives "", an
\* exception after the fetch propagates to the caller
extract_text_for_url(outcome) ==
    IF outcome = "extract raised" THEN "raise"
    ELSE IF outcome = "text" THEN "text"
    ELSE "empty"

LogEntry(date, item, title, status, reason) ==
    [date |-> date, source |-> item.source, title |-> title, url |-> item.url,
     status |-> status, reason |-> reason]

\* variant: the seen set is not consulted
KeptMentions_nofilter(mentions, url, seen, ignore) == mentions

\* variant: IGNORE_DEDUPE is not consulted
KeptMentions_noignore(mentions, url, seen, ignore) ==
    SelectSeq(mentions, LAMBDA m : Fingerprint(url, m) \notin seen)

\* the dedupe loop: the mentions kept for the report
KeptMentions(mentions, url, seen, ignore) ==
    SelectSeq(mentions, LAMBDA m : ignore \/ Fingerprint(url, m) \notin seen)

\* the fingerprints the dedupe loop adds to new_hashes
KeptHashes(mentions, url, seen, ignore) ==
    LET kept == KeptMentions(mentions, url, seen, ignore)
    IN  {Fingerprint(url, kept[j]) : j \in 1 .. Len(kept)}

\* variant: the year bound is off by one
BeforeMinYear_offbyone(c, meeting_dt) ==
    c.MIN_YEAR # NoYear /\ meeting_dt # NoDate /\ meeting_dt.y < c.MIN_YEAR - 1

BeforeMinYear(c, meeting_dt) ==
    c.MIN_YEAR # NoYear /\ meeting_dt # NoDate /\ meeting_dt.y < c.MIN_YEAR

\* variant: 'if not kept: ... continue' left out
ProcessDoc_keepempty(item, res, c, rng, seen) ==
    LET title      == IF item.title = "" THEN "Meeting Item" ELSE item.title
        mentions   == item.mentions
        meeting_dt == item.meeting_dt
        iso_date   == IF meeting_dt # NoDate THEN IsoFormat(meeting_dt) ELSE ""
        date       == IF meeting_dt # NoDate THEN DateIso(meeting_dt) ELSE ""
        kept       == KeptMentions(mentions, item.url, seen, c.IGNORE_DEDUPE)
        none       == [results |-> << >>, rows |-> << >>, hashes |-> {}]
    IN  IF res = "raise"
        THEN none @@ [log |-> LogEntry("", item, title, "error", "fetch/extract error")]
        ELSE IF res = "empty"
        THEN none @@ [log |-> LogEntry("", item, title, "skipped", "no text extracted")]
        ELSE IF BeforeMinYear(c, meeting_dt)
        THEN none @@ [log |-> LogEntry(date, item, title, "skipped",
                                       "before MIN_YEAR " \o ToString(c.MIN_YEAR))]
        ELSE IF ~within_range(iso_date, rng.start, rng.end)
        THEN none @@ [log |-> LogEntry(date, item, title, "skipped", "out of date range")]
        ELSE IF mentions = << >>
        THEN none @@ [log |-> LogEntry(date, item, title, "scanned", "no preschool mentions")]
        ELSE [results |-> << [title |-> title, url |-> item.url, date |-> date,
                              mentions |-> kept] >>,
              rows |-> [j \in 1 .. Len(kept) |->
                          << date, item.source, item.url, kept[j].keyword,
                             Strip(kept[j].snippet) >>],
              hashes |-> KeptHashes(mentions, item.url, seen, c.IGNORE_DEDUPE),
              log |-> LogEntry(date, item, title, "matched",
                               ToString(Len(kept)) \o " new mention(s)")]

\* One iteration of the loop over items: the scan-log entry, the records
\* appended to results_for_email, the rows appended to rows_for_csv and the
\* fingerprints added to new_hashes.
ProcessDoc(item, res, c, rng, seen) ==
    LET title      == IF item.title = "" THEN "Meeting Item" ELSE item.title
        mentions   == item.mentions
        meeting_dt == item.meeting_dt
        iso_date   == IF meeting_dt # NoDate THEN IsoFormat(meeting_dt) ELSE ""
        date       == IF meeting_dt # NoDate THEN DateIso(meeting_dt) ELSE ""
        kept       == KeptMentions(mentions, item.url, seen, c.IGNORE_DEDUPE)
        none       == [results |-> << >>, rows |-> << >>, hashes |-> {}]
    IN  IF res = "raise"
        THEN none @@ [log |-> LogEntry("", item, title, "error", "fetch/extract error")]
        ELSE IF res = "empty"
        THEN none @@ [log |-> LogEntry("", item, title, "skipped", "no text extracted")]
        ELSE IF BeforeMinYear(c, meeting_dt)
        THEN none @@ [log |-> LogEntry(date, item, title, "skipped",
                                       "before MIN_YEAR " \o ToString(c.MIN_YEAR))]
        ELSE IF ~within_range(iso_date, rng.start, rng.end)
        THEN none @@ [log |-> LogEntry(date, item, title, "skipped", "out of date range")]
        ELSE IF mentions = << >>
        THEN none @@ [log |-> LogEntry(date, item, title, "scanned", "no preschool mentions")]
        ELSE IF kept = << >>
        THEN none @@ [log |-> LogEntry(date, item, title, "scanned",
                                       "only duplicates (already reported)")]
        ELSE [results |-> << [title |-> title, url |-> item.url, date |-> date,
                              mentions |-> kept] >>,
              rows |-> [j \in 1 .. Len(kept) |->
                          << date, item.source, item.url, kept[j].keyword,
                             Strip(kept[j].snippet) >>],
              hashes |-> KeptHashes(mentions, item.url, seen, c.IGNORE_DEDUPE),
              log |-> LogEntry(date, item, title, "matched",
                               ToString(Len(kept)) \o " new mention(s)")]

(***************************************************************************)
(* Sorting of results_for_email: key (date, title), reverse, stable         *)
(***************************************************************************)
\* the titles of the model in Python's string order
TitlesSorted == << "Agenda", "Budget", "Meeting Item", "Minutes" >>
TitleRank(t) == CHOOSE r \in 1 .. Len(TitlesSorted) : TitlesSorted[r] = t

sort_key(r) ==
    LET p == ParseDateIso(r.date)
        dt == IF r.date # "" /\ p[2] THEN p[1] ELSE Dt(1970, 1, 1, 0)
    IN  DayKey(dt) * 10 + TitleRank(r.title)

\* insert r into the descending sequence sq after every element whose key
\* is not smaller, so that equal keys keep their relative order
RECURSIVE InsertDesc(_, _)
InsertDesc(sq, r) ==
    IF sq = << >> THEN << r >>
    ELSE IF sort_key(Head(sq)) >= sort_key(r)
         THEN << Head(sq) >> \o InsertDesc(Tail(sq), r)
         ELSE << r >> \o sq

RECURSIVE SortDesc(_)
SortDesc(sq) ==
    IF sq = << >> THEN << >>
    ELSE InsertDesc(SortDesc(SubSeq(sq, 1, Len(sq) - 1)), sq[Len(sq)])

(***************************************************************************)
(* Discovery: items = get_minutes_links() + get_boarddocs_links(), each     *)
(* list with pairwise distinct URLs                                         *)
(***************************************************************************)
RECURSIVE SeqOf(_)
SeqOf(S) == IF S = {} THEN << >>
            ELSE LET d == CHOOSE x \in S : \A y \in S : x <= y
                 IN  << d >> \o SeqOf(S \ {d})

Discoveries ==
    {SeqOf(M) \o SeqOf(B) :
        M \in SUBSET DocIds, B \in SUBSET BoardDocIds}

BoundedDiscoveries == {sq \in Discoveries : Len(sq) <= MaxItems}

(***************************************************************************)
(* State                                                                    *)
(***************************************************************************)
VARIABLES
    file,               \* the content of STATE_FILE (state.json)
    runs,               \* number of runs of main started so far
    pc,                 \* position of the current run in main
    cfg,                \* configuration of the current run
    now,                \* datetime.utcnow() of the current run
    state,              \* main's state dict
    range,              \* (start, end, is_backfill) of the current run
    items,              \* discovered items (indices into Corpus)
    texts,              \* result of extract_text_for_url for each item
    idx,                \* index of the next item of the scan loop
    seen_hashes,        \* set(state["seen_hashes"]) taken before the loop
    new_hashes,
    scanned_log,
    results_for_email,
    rows_for_csv,
    exit,               \* how the current run ended
    tampered,           \* the state file was lost or damaged at some time
    ignoreUsed,         \* some run so far had IGNORE_DEDUPE on
    steady,             \* every run so far had the default configuration, and
                        \* every run that ended so far ended with the report sent
    \* what earlier runs did, recorded while the state file is intact:
    reported,           \* fingerprints emitted by earlier runs that saved state
    backfilled,         \* some earlier run saved the state after a backfill window
    sameDocs,           \* discovery and extraction give every run the same documents
    prev,               \* what the previous run did (kept when sameDocs)
    fetched,            \* what happened in the latest call of extract_text_for_url
    input,              \* argument of a function applied on its own
    output,             \* its result
    \* crawl_district applied on its own:
    queue,
    visited,
    results,
    fetches,            \* the calls of fetch made so far
    crawl_pc            \* position in crawl_district

vars == << file, runs, pc, cfg, now, state, range, items, texts, idx,
           seen_hashes, new_hashes, scanned_log, results_for_email,
           rows_for_csv, exit, tampered, ignoreUsed, steady, reported, backfilled,
           sameDocs, prev, fetched, input, output,
           queue, visited, results, fetches, crawl_pc >>

\* the variables of a call of crawl_district
crawling == << queue, visited, results, fetches, crawl_pc >>

\* the variables that main does not touch
pure == << input, output, crawling >>

\* the variables of a run of main
main == << file, runs, pc, cfg, now, state, range, items, texts, idx,
           seen_hashes, new_hashes, scanned_log, results_for_email,
           rows_for_csv, exit, tampered, ignoreUsed, steady, reported, backfilled,
           sameDocs, prev, fetched >>

NoInput == [fn |-> "none"]
NoOutput == [fn |-> "none"]

DefaultConfig == [IGNORE_DEDUPE |-> FALSE, FORCE_FULL_RESCAN |-> FALSE,
                  YEAR |-> NoYear, MIN_YEAR |-> NoYear]

NoRange == [start |-> NoDate, end |-> NoDate, is_backfill |-> FALSE]

NoPrev == [ran |-> FALSE, persisted |-> FALSE, ignore |-> FALSE, log |-> << >>]

InitCommon ==
    /\ file = FileOf("absent", EmptyState)
    /\ runs = 0
    /\ pc = "idle"
    /\ cfg = DefaultConfig
    /\ now = NoDate
    /\ state = EmptyState
    /\ range = NoRange
    /\ items = << >>
    /\ texts = << >>
    /\ idx = 1
    /\ seen_hashes = {}
    /\ new_hashes = {}
    /\ scanned_log = << >>
    /\ results_for_email = << >>
    /\ rows_for_csv = << >>
    /\ exit = "none"
    /\ tampered = FALSE
    /\ ignoreUsed = FALSE
    /\ steady = TRUE
    /\ reported = {}
    /\ backfilled = FALSE
    /\ prev = NoPrev
    /\ fetched = "none"
    /\ queue = << >>
    /\ visited = {}
    /\ results = << >>
    /\ fetches = << >>
    /\ crawl_pc = "idle"

Init == InitCommon /\ sameDocs = FALSE /\ input = NoInput /\ output = NoOutput

InitRepeat == InitCommon /\ sameDocs = TRUE /\ input = NoInput /\ output = NoOutput

(***************************************************************************)
(* main, lines 489-534: load the state, compute the window, discover        *)
(***************************************************************************)
StartRun ==
    /\ pc = "idle"
    /\ runs < MaxRuns
    /\ runs < Len(Times)
    /\ \E c \in Configs,
          its \in (IF sameDocs /\ runs > 0 THEN {items} ELSE BoundedDiscoveries) :
         LET st == load_state(file)
             today == Times[runs + 1]
         IN  /\ cfg' = c
             /\ now' = today
             /\ state' = st
             /\ range' = compute_run_range(st, today, c)
             /\ items' = its
             /\ texts' = IF sameDocs /\ runs > 0 THEN texts ELSE << >>
             /\ ignoreUsed' = (ignoreUsed \/ c.IGNORE_DEDUPE)
             /\ steady' = (steady /\ c = DefaultConfig)
             /\ IF st.bad_list
                THEN \* set(state["seen_hashes"]) raises TypeError
                     /\ pc' = "exit"
                     /\ exit' = "fatal: state shape"
                     /\ seen_hashes' = {}
                ELSE /\ pc' = IF its = << >> THEN "write" ELSE "scan"
                     /\ exit' = "running"
                     /\ seen_hashes' = st.seen_hashes
    /\ runs' = runs + 1
    /\ idx' = 1
    /\ new_hashes' = {}
    /\ scanned_log' = << >>
    /\ results_for_email' = << >>
    /\ rows_for_csv' = << >>
    /\ fetched' = "none"
    /\ UNCHANGED << file, tampered, reported, backfilled, sameDocs, prev >>
    /\ UNCHANGED pure

(***************************************************************************)
(* main, lines 536-645: one iteration of the scan loop                      *)
(***************************************************************************)
ScanDoc ==
    /\ pc = "scan"
    /\ idx <= Len(items)
    /\ \E o \in FetchOutcomes :
       LET res == extract_text_for_url(o)
       IN
         /\ res \in ExtractResults
         /\ idx <= Len(texts) => res = texts[idx]
         /\ fetched' = o
         /\ LET out == ProcessDoc(Corpus[items[idx]], res, cfg, range, seen_hashes)
            IN  /\ scanned_log' = Append(scanned_log, out.log)
                /\ results_for_email' = results_for_email \o out.results
                /\ rows_for_csv' = rows_for_csv \o out.rows
                /\ new_hashes' = new_hashes \cup out.hashes
         /\ texts' = IF idx <= Len(texts) THEN texts ELSE Append(texts, res)
    /\ idx' = idx + 1
    /\ pc' = IF idx + 1 > Len(items) THEN "write" ELSE "scan"
    /\ UNCHANGED << file, runs, cfg, now, state, range, items, seen_hashes, exit,
                    tampered, ignoreUsed, steady, reported, backfilled, sameDocs,
                    prev >>
    /\ UNCHANGED pure

(***************************************************************************)
(* main, lines 647-812: sort the results and write report.csv, scanned.csv  *)
(* and last_report.html; update and save the state; check the delivery      *)
(* settings and send the report.  Each write may fail and end the run:      *)
(* open(STATE_FILE, "w") may fail (file untouched) and json.dump may fail   *)
(* after the file was truncated.  The scan log, the rows and the items of   *)
(* the loop are not used after this step.                                   *)
(***************************************************************************)
FinalizeOutcomes == {"write failed", "open failed", "dump failed",
                     "settings missing", "send failed", "sent"}

ExitOf(outcome) ==
    IF outcome = "write failed" THEN "fatal: write"
    ELSE IF outcome \in {"open failed", "dump failed"} THEN "fatal: save"
    ELSE IF outcome = "settings missing" THEN "fatal: email settings"
    ELSE IF outcome = "send failed" THEN "fatal: send"
    ELSE "ok"

\* save_state returned
Persisted(outcome) == outcome \in {"settings missing", "send failed", "sent"}

\* the fingerprints of the mentions kept in results_for_email
EmittedFps ==
    UNION { {Fingerprint(results_for_email[k].url, results_for_email[k].mentions[j]) :
                j \in 1 .. Len(results_for_email[k].mentions)} :
            k \in 1 .. Len(results_for_email) }

\* what the next run of a repeated scan is compared with
Summary(e) == IF e.status = "skipped" /\ e.reason # "no text extracted"
              THEN "date-skipped"
              ELSE IF e.status = "matched" THEN "matched" ELSE "other"

Finalize ==
    /\ pc = "write"
    /\ results_for_email' = SortDesc(results_for_email)
    /\ \E outcome \in FinalizeOutcomes :
         /\ state' = IF outcome = "write failed" THEN state
                     ELSE update_state(state, cfg, new_hashes, range.is_backfill,
                                       range.end)
         /\ file' = IF Persisted(outcome) THEN FileOf("object", state')
                    ELSE IF outcome = "dump failed" THEN FileOf("corrupt", EmptyState)
                    ELSE file
         /\ exit' = ExitOf(outcome)
         /\ tampered' = (tampered \/ outcome = "dump failed")
         /\ steady' = (steady /\ outcome = "sent")
         /\ reported' = IF tampered' THEN {}
                        ELSE IF Persisted(outcome) THEN reported \cup EmittedFps
                        ELSE reported
         /\ backfilled' = IF tampered' THEN FALSE
                          ELSE (backfilled \/ (Persisted(outcome) /\ range.is_backfill))
         /\ prev' = IF tampered' THEN NoPrev
                    ELSE IF sameDocs
                    THEN [ran |-> TRUE, persisted |-> Persisted(outcome),
                          ignore |-> cfg.IGNORE_DEDUPE,
                          log |-> [i \in 1 .. Len(scanned_log) |->
                                     Summary(scanned_log[i])]]
                    ELSE prev
    /\ pc' = "exit"
    /\ scanned_log' = << >>
    /\ rows_for_csv' = << >>
    /\ fetched' = "none"
    /\ items' = IF sameDocs THEN items ELSE << >>
    /\ texts' = IF sameDocs THEN texts ELSE << >>
    /\ idx' = 1
    /\ UNCHANGED << runs, cfg, now, range, seen_hashes, new_hashes, ignoreUsed,
                    sameDocs >>
    /\ UNCHANGED pure

(***************************************************************************)
(* The process ends; the next run starts from the state file alone          *)
(***************************************************************************)
Finish ==
    /\ pc = "exit"
    /\ pc' = "idle"
    /\ exit' = "none"
    /\ cfg' = DefaultConfig
    /\ now' = NoDate
    /\ state' = EmptyState
    /\ range' = NoRange
    /\ idx' = 1
    /\ seen_hashes' = {}
    /\ new_hashes' = {}
    /\ results_for_email' = << >>
    /\ items' = IF sameDocs THEN items ELSE << >>
    /\ texts' = IF sameDocs THEN texts ELSE << >>
    /\ UNCHANGED << file, runs, scanned_log, rows_for_csv, tampered, ignoreUsed,
                    steady, reported, backfilled, sameDocs, prev, fetched >>
    /\ UNCHANGED pure

(***************************************************************************)
(* Between runs the state file may be deleted or replaced by something that *)
(* is not the program's own output                                          *)
(***************************************************************************)
Tamper ==
    /\ pc = "idle"
    /\ runs < MaxRuns
    /\ ~tampered
    /\ file.kind = "object"
    /\ \E f \in {FileOf("absent", EmptyState), FileOf("corrupt", EmptyState),
                 FileOf("nonobject", EmptyState),
                 FileOf("object", [EmptyState EXCEPT !.bad_list = TRUE])} :
         file' = f
    /\ tampered' = TRUE
    /\ reported' = {}
    /\ backfilled' = FALSE
    /\ prev' = NoPrev
    /\ UNCHANGED << runs, pc, cfg, now, state, range, items, texts, idx,
                    seen_hashes, new_hashes, scanned_log, results_for_email,
                    rows_for_csv, exit, ignoreUsed, steady, sameDocs, fetched >>
    /\ UNCHANGED pure

Next == \/ StartRun
        \/ ScanDoc
        \/ Finalize
        \/ Finish
        \/ Tamper

Spec == Init /\ [][Next]_vars

SpecRepeat == InitRepeat /\ [][Next]_vars

TypeOK == pc \in {"idle", "scan", "write", "exit"}

(***************************************************************************)
(* parser_utils: whitespace, sentences, snippets, keyword matches.  Texts   *)
(* are over the characters a p k A . space newline and NBSP.                *)
(***************************************************************************)
At(s, i) == SubSeq(s, i, i)

\* Python's s[a:b] for 0 <= a
Slice(s, a, b) ==
    LET hi == IF b > Len(s) THEN Len(s) ELSE b
    IN  IF a >= hi THEN "" ELSE SubSeq(s, a + 1, hi)

\* s.replace(old, new) for one-character old, on the positions lo .. hi
RECURSIVE replace_range(_, _, _, _, _)
replace_range(s, old, new, lo, hi) ==
    IF lo > hi THEN ""
    ELSE IF lo = hi THEN (IF At(s, lo) = old THEN new ELSE At(s, lo))
    ELSE LET mid == (lo + hi) \div 2
         IN  replace_range(s, old, new, lo, mid) \o replace_range(s, old, new, mid + 1, hi)

replace(s, old, new) == replace_range(s, old, new, 1, Len(s))

\* the class [ \t\r\f\v] of _WHITESPACE_RE
IsHSpace(c) == c \in {" ", "\t", "\r"}

\* _WHITESPACE_RE.sub(" ", s) on the positions lo .. hi: the first character
\* of a run of blanks gives one space, the others nothing
RECURSIVE sub_ws_range(_, _, _)
sub_ws_range(s, lo, hi) ==
    IF lo > hi THEN ""
    ELSE IF lo = hi
         THEN (IF IsHSpace(At(s, lo))
               THEN (IF lo > 1 /\ IsHSpace(At(s, lo - 1)) THEN "" ELSE " ")
               ELSE At(s, lo))
    ELSE LET mid == (lo + hi) \div 2
         IN  sub_ws_range(s, lo, mid) \o sub_ws_range(s, mid + 1, hi)

sub_ws(s, i) == sub_ws_range(s, i, Len(s))

\* variant: the no-break spaces are replaced after the runs are collapsed
_normalize_space_late(s) == Strip(replace(sub_ws(s, 1), NBSP, " "))

_normalize_space(s) == Strip(sub_ws(replace(s, NBSP, " "), 1))

UpperChars == {"A", "B", "C", "D", "E", "F", "G", "H", "I", "J", "K", "L", "M",
               "N", "O", "P", "Q", "R", "S", "T", "U", "V", "W", "X", "Y", "Z"}

LowerChars == {"a", "b", "c", "d", "e", "f", "g", "h", "i", "j", "k", "l", "m",
               "n", "o", "p", "q", "r", "s", "t", "u", "v", "w", "x", "y", "z"}

Digits == {"0", "1", "2", "3", "4", "5", "6", "7", "8", "9"}

IsUpper(c) == c \in UpperChars

\* the class \w
IsWord(c) == c \in UpperChars \cup LowerChars \cup Digits \cup {"_"}

Lower(c) == IF c = "A" THEN "a" ELSE IF c = "K" THEN "k" ELSE IF c = "P" THEN "p" ELSE c

\* Lower on the positions lo .. hi
RECURSIVE lower_range(_, _, _)
lower_range(s, lo, hi) ==
    IF lo > hi THEN ""
    ELSE IF lo = hi THEN Lower(At(s, lo))
    ELSE LET mid == (lo + hi) \div 2
         IN  lower_range(s, lo, mid) \o lower_range(s, mid + 1, hi)

lower(s) == lower_range(s, 1, Len(s))

\* the lookbehind \b[A-Z] before position i
Initial(s, i) == i > 1 /\ IsUpper(At(s, i - 1)) /\ (i = 2 \/ ~IsWord(At(s, i - 2)))

\* the first position from i on that holds no whitespace
RECURSIVE WsRunEnd(_, _)
WsRunEnd(s, i) == IF i <= Len(s) /\ IsSpace(At(s, i)) THEN WsRunEnd(s, i + 1) ELSE i

RECURSIVE NlRunEnd(_, _)
NlRunEnd(s, i) == IF i <= Len(s) /\ At(s, i) = "\n" THEN NlRunEnd(s, i + 1) ELSE i

\* the position after the match of _SENTENCE_SPLIT_RE that starts at
\* position i, or 0 when there is none:
\* (?<!\b[A-Z])[\.!?](?:\s+|\s*$)|\n{2,}
SplitMatchEnd(s, i) ==
    IF /\ At(s, i) \in {".", "!", "?"}
       /\ ~Initial(s, i)
       /\ (i = Len(s) \/ IsSpace(At(s, i + 1)))
    THEN WsRunEnd(s, i + 1)
    ELSE IF At(s, i) = "\n" /\ i < Len(s) /\ At(s, i + 1) = "\n"
         THEN NlRunEnd(s, i)
         ELSE 0

\* the loop of _split_sentences: the chunk starts at st, the scan is at i
RECURSIVE split_from(_, _, _)
split_from(s, st, i) ==
    IF i > Len(s)
    THEN LET tail == Strip(Slice(s, st - 1, Len(s)))
         IN  IF tail # "" THEN << tail >> ELSE << >>
    ELSE LET e == SplitMatchEnd(s, i)
         IN  IF e = 0 THEN split_from(s, st, i + 1)
             ELSE LET chunk == Strip(Slice(s, st - 1, e - 1))
                  IN  (IF chunk # "" THEN << chunk >> ELSE << >>)
                        \o split_from(s, e, e)

_split_sentences(text) ==
    LET t == replace(text, "\r", "\n")
        parts == split_from(t, 1, 1)
    IN  IF parts = << >> THEN << t >> ELSE parts

\* " ".join(chosen)
RECURSIVE join(_)
join(chosen) ==
    IF chosen = << >> THEN ""
    ELSE IF Len(chosen) = 1 THEN chosen[1]
    ELSE chosen[1] \o " " \o join(Tail(chosen))

\* the walk over the sentences of _bounded_context: the 0-based index of the
\* first sentence taken to hold the match, 0 when none is
RECURSIVE sentence_of(_, _, _, _, _)
sentence_of(sentences, start, end, i, pos) ==
    IF i > Len(sentences) THEN 0
    ELSE LET nxt == pos + Len(sentences[i])
         IN  IF \/ (pos <= start /\ start < nxt)
                \/ (pos < end /\ end <= nxt)
                \/ (start <= pos /\ nxt <= end)
             THEN i - 1
             ELSE sentence_of(sentences, start, end, i + 1, nxt + 1)

_bounded_context(text, match_span, target_len) ==
    IF text = "" THEN ""
    ELSE
      LET text_norm == _normalize_space(text)
          start     == IF match_span[1] < 0 THEN 0 ELSE match_span[1]
          end       == IF match_span[2] > Len(text_norm) THEN Len(text_norm)
                       ELSE match_span[2]
          sentences == _split_sentences(text_norm)
          i_s       == sentence_of(sentences, start, end, 1, 0)
          one       == << sentences[i_s + 1] >>
          chosen    == IF Len(_normalize_space(join(one))) < target_len \div 2
                       THEN (IF i_s > 0 THEN << sentences[i_s] >> ELSE << >>)
                              \o one
                              \o (IF i_s + 1 < Len(sentences)
                                  THEN << sentences[i_s + 2] >> ELSE << >>)
                       ELSE one
          snippet   == _normalize_space(join(chosen))
          mid       == (start + end) \div 2
          left      == IF mid - target_len \div 2 < 0 THEN 0
                       ELSE mid - target_len \div 2
          right     == IF left + target_len > Len(text_norm) THEN Len(text_norm)
                       ELSE left + target_len
      IN  IF Len(snippet) > target_len
          THEN (IF left > 0 THEN ELLIPSIS ELSE "")
                 \o Strip(Slice(text_norm, left, right))
                 \o (IF right < Len(text_norm) THEN ELLIPSIS ELSE "")
          ELSE snippet

\* KEYWORD_REGEX.finditer(text): over the characters of the model the only
\* alternative that can match is \bpk\b (ignoring case); the spans are
\* (m.start(), m.end())
RECURSIVE keyword_spans(_, _)
keyword_spans(text, i) ==
    IF i + 1 > Len(text) THEN << >>
    ELSE IF /\ Lower(At(text, i)) = "p" /\ Lower(At(text, i + 1)) = "k"
            /\ (i = 1 \/ ~IsWord(At(text, i - 1)))
            /\ (i + 1 = Len(text) \/ ~IsWord(At(text, i + 2)))
         THEN << << i - 1, i + 1 >> >> \o keyword_spans(text, i + 2)
         ELSE keyword_spans(text, i + 1)

\* variant: every match gives a mention
RECURSIVE mentions_from_nodedupe(_, _, _, _, _)
mentions_from_nodedupe(text, spans, k, seen_snips, context_chars) ==
    IF k > Len(spans) THEN << >>
    ELSE << [keyword |-> Slice(text, spans[k][1], spans[k][2]),
             snippet |-> _bounded_context(text, spans[k], context_chars)] >>
         \o mentions_from_nodedupe(text, spans, k + 1, seen_snips, context_chars)

\* the loop of find_preschool_mentions over the matches from the k-th on
RECURSIVE mentions_from(_, _, _, _, _)
mentions_from(text, spans, k, seen_snips, context_chars) ==
    IF k > Len(spans) THEN << >>
    ELSE LET span    == spans[k]
             group0  == Slice(text, span[1], span[2])
             snippet == _bounded_context(text, span, context_chars)
             key     == << lower(group0), lower(snippet) >>
         IN  IF key \in seen_snips
             THEN mentions_from(text, spans, k + 1, seen_snips, context_chars)
             ELSE << [keyword |-> group0, snippet |-> snippet] >>
                    \o mentions_from(text, spans, k + 1, seen_snips \cup {key},
                                     context_chars)

find_preschool_mentions(text, context_chars) ==
    IF text = "" THEN << >>
    ELSE mentions_from(text, keyword_spans(text, 1), 1, {}, context_chars)

(***************************************************************************)
(* The functions of parser_utils on their own: a text is given, and one of  *)
(* _normalize_space, find_preschool_mentions and _bounded_context (for the  *)
(* span of a keyword match) is applied to it                                *)
(***************************************************************************)
Tokens == << "pk", "PK", "a", " ", ".", "\n", NBSP >>

RECURSIVE TextsOf(_)
TextsOf(n) ==
    IF n = 0 THEN {""}
    ELSE LET S == TextsOf(n - 1)
         IN  S \cup {t \o Tokens[i] : t \in S, i \in 1 .. Len(Tokens)}

Texts == TextsOf(MaxTokens)

\* find_preschool_mentions calls with context_chars = 220; the texts of the
\* model are short, so the target lengths are
TargetLens == 2 .. MaxTargetLen

InitText ==
    /\ InitCommon /\ sameDocs = FALSE
    /\ input \in [fn : {"text"}, text : Texts]
    /\ output = NoOutput

Normalize ==
    /\ input.fn = "text" /\ output.fn = "none"
    /\ output' = [fn |-> "_normalize_space",
                  once |-> _normalize_space(input.text),
                  twice |-> _normalize_space(_normalize_space(input.text))]
    /\ UNCHANGED << main, input, crawling >>

FindMentions ==
    /\ input.fn = "text" /\ output.fn = "none"
    /\ \E n \in TargetLens :
         output' = [fn |-> "find_preschool_mentions", target_len |-> n,
                    mentions |-> find_preschool_mentions(input.text, n)]
    /\ UNCHANGED << main, input, crawling >>

BoundedContext ==
    /\ input.fn = "text" /\ output.fn = "none"
    /\ LET spans == keyword_spans(input.text, 1)
       IN  \E n \in TargetLens, k \in 1 .. Len(spans) :
             output' = [fn |-> "_bounded_context", target_len |-> n,
                        span |-> spans[k],
                        snippet |-> _bounded_context(input.text, spans[k], n)]
    /\ UNCHANGED << main, input, crawling >>

NextText == \/ Normalize
            \/ FindMentions
            \/ BoundedContext

SpecText == InitText /\ [][NextText]_vars

(***************************************************************************)
(* parser_utils: meeting date.  The dates of the model's texts are written  *)
(* as "Month D, YYYY" (DATE_PATTERNS[0]) or as "YYYY-MM-DD" with a year     *)
(* 20dd (DATE_PATTERNS[3] and [4], which both match such a token); with     *)
(* month names capitalised and digits nowhere else, the other patterns      *)
(* match nothing.  A date is Dt(y, m, d, 0): the parsed tokens carry no     *)
(* time of day.                                                             *)
(***************************************************************************)
\* the character at position i, "" outside the string
Ch(s, i) == IF 1 <= i /\ i <= Len(s) THEN At(s, i) ELSE ""

IsDigit(c) == c \in Digits

AllDigits(s) == \A i \in 1 .. Len(s) : IsDigit(At(s, i))

RECURSIVE Num(_)
Num(s) ==
    IF s = "" THEN 0
    ELSE 10 * Num(SubSeq(s, 1, Len(s) - 1))
         + (CHOOSE n \in 0 .. 9 : ToString(n) = At(s, Len(s)))

\* \b before position i (1 .. Len(s) + 1)
WordBoundary(s, i) == (Ch(s, i - 1) # "" /\ IsWord(Ch(s, i - 1)))
                      # (Ch(s, i) # "" /\ IsWord(Ch(s, i)))

MonthNames == << "January", "February", "March", "April", "May", "June", "July",
                "August", "September", "October", "November", "December" >>

IsLeap(y) == (y % 4 = 0 /\ y % 100 # 0) \/ y % 400 = 0

DaysInMonth(y, m) ==
    IF m = 2 THEN (IF IsLeap(y) THEN 29 ELSE 28)
    ELSE IF m \in {4, 6, 9, 11} THEN 30 ELSE 31

\* date.toordinal(): the days from 0001-01-01, that day counting as 1
toordinal(dt) ==
    LET y == dt.y - 1
        before == << 0, 31, 59, 90, 120, 151, 181, 212, 243, 273, 304, 334 >>
    IN  365 * y + y \div 4 - y \div 100 + y \div 400
        + before[dt.m] + (IF dt.m > 2 /\ IsLeap(dt.y) THEN 1 ELSE 0) + dt.d

\* dateparser.parse(token, dayfirst=False, fuzzy=True) of a token with the
\* fields y, m, d; NoDate when it raises (no such day)
parse(y, m, d) ==
    IF y >= 1 /\ m \in 1 .. 12 /\ d >= 1 /\ d <= DaysInMonth(y, m)
    THEN Dt(y, m, d, 0) ELSE NoDate

NoMatch == [ok |-> FALSE, start |-> 0, end |-> 0, dt |-> NoDate]

\* DATE_PATTERNS[0] matched at position i (1-based); start and end as
\* m.start() and m.end()
long_month_at(s, i) ==
    LET names == {k \in 1 .. 12 : Slice(s, i - 1, i - 1 + Len(MonthNames[k])) = MonthNames[k]}
    IN  IF ~IsUpper(Ch(s, i)) \/ ~WordBoundary(s, i) \/ names = {} THEN NoMatch
        ELSE LET mo == CHOOSE n \in names : TRUE
                 j == i + Len(MonthNames[mo])
                 a == WsRunEnd(s, j)
                 n == IF IsDigit(Ch(s, a)) /\ IsDigit(Ch(s, a + 1)) /\ Ch(s, a + 2) = ","
                      THEN 2
                      ELSE IF IsDigit(Ch(s, a)) /\ Ch(s, a + 1) = "," THEN 1 ELSE 0
                 c == WsRunEnd(s, a + n + 1)
                 year == Slice(s, c - 1, c + 3)
             IN  IF /\ a > j /\ n > 0 /\ c > a + n + 1
                    /\ Len(year) = 4 /\ AllDigits(year) /\ WordBoundary(s, c + 4)
                 THEN [ok |-> TRUE, start |-> i - 1, end |-> c + 3,
                       dt |-> parse(Num(year), mo, Num(Slice(s, a - 1, a - 1 + n)))]
                 ELSE NoMatch

\* DATE_PATTERNS[3] matched at position i
iso_at(s, i) ==
    LET t == Slice(s, i - 1, i + 9)
    IN  IF /\ IsDigit(Ch(s, i)) /\ WordBoundary(s, i) /\ Len(t) = 10
           /\ AllDigits(Slice(t, 0, 4)) /\ At(t, 5) = "-"
           /\ AllDigits(Slice(t, 5, 7)) /\ At(t, 8) = "-"
           /\ AllDigits(Slice(t, 8, 10)) /\ WordBoundary(s, i + 10)
        THEN [ok |-> TRUE, start |-> i - 1, end |-> i + 9,
              dt |-> parse(Num(Slice(t, 0, 4)), Num(Slice(t, 5, 7)), Num(Slice(t, 8, 10)))]
        ELSE NoMatch

\* DATE_PATTERNS[4] matched at position i, for a token YYYY-MM-DD
compact_at(s, i) ==
    LET m == iso_at(s, i)
        t == Slice(s, i - 1, i + 9)
    IN  IF /\ m.ok /\ Slice(t, 0, 2) = "20"
           /\ Num(Slice(t, 5, 7)) \in 1 .. 12 /\ Num(Slice(t, 8, 10)) \in 1 .. 31
        THEN m ELSE NoMatch

\* the patterns of DATE_REGEXES that match in the model's texts, in the
\* order of the list
date_pattern_at(k, s, i) ==
    IF k = 1 THEN long_month_at(s, i)
    ELSE IF k = 2 THEN iso_at(s, i)
    ELSE compact_at(s, i)

\* rx.finditer: the matches from left to right, none overlapping an earlier
RECURSIVE finditer(_, _)
finditer(ms, pos) ==
    LET c == {m \in ms : m.start >= pos}
    IN  IF c = {} THEN << >>
        ELSE LET m == CHOOSE m \in c : \A o \in c : m.start <= o.start
             IN  << m >> \o finditer(c \ {m}, m.end)

date_matches(k, s) ==
    finditer({m \in {date_pattern_at(k, s, i) : i \in 1 .. Len(s)} : m.ok}, 0)

\* the dates of the matches that parse and pass the year filter
accepted(ms, today) ==
    LET keep(m) == m.dt # NoDate /\ 2015 <= m.dt.y /\ m.dt.y <= today.y + 1
        kept == SelectSeq(ms, keep)
    IN  [k \in 1 .. Len(kept) |-> kept[k].dt]

\* variant: the year of a date is not looked at
_parse_candidates_from_text_nofilter(source, today) ==
    LET all == SelectSeq(date_matches(1, source) \o date_matches(2, source)
                         \o date_matches(3, source), LAMBDA m : m.dt # NoDate)
    IN  [k \in 1 .. Len(all) |-> all[k].dt]

\* today stands for datetime.utcnow()
_parse_candidates_from_text(source, today) ==
    accepted(date_matches(1, source) \o date_matches(2, source)
             \o date_matches(3, source), today)

(***************************************************************************)
(* The scores are Python floats (IEEE-754 binary64, round to nearest, ties *)
(* to even).  A magnitude below 16 is a sequence of bits, INT_BITS of them  *)
(* before the binary point; the sums and differences of the scores are      *)
(* exact in FLOAT_BITS bits.  A float is [neg, mag].                        *)
(***************************************************************************)
INT_BITS == 4
FLOAT_BITS == 65
MANTISSA == 53

Zeros(n) == [i \in 1 .. n |-> 0]

PadBits(b, n) == IF Len(b) >= n THEN SubSeq(b, 1, n) ELSE b \o Zeros(n - Len(b))

\* b < c for magnitudes of one length
BitsLess(b, c) ==
    \E i \in 1 .. Len(b) : b[i] < c[i] /\ \A j \in 1 .. i - 1 : b[j] = c[j]

\* the bits 1 .. i of b + c and of b - c (b >= c), with the carry into bit i
RECURSIVE add_bits(_, _, _, _)
add_bits(b, c, i, carry) ==
    IF i = 0 THEN << >>
    ELSE LET t == b[i] + c[i] + carry
         IN  IF t >= 2 THEN add_bits(b, c, i - 1, 1) \o << t - 2 >>
             ELSE add_bits(b, c, i - 1, 0) \o << t >>

RECURSIVE sub_bits(_, _, _, _)
sub_bits(b, c, i, borrow) ==
    IF i = 0 THEN << >>
    ELSE LET t == b[i] - c[i] - borrow
         IN  IF t < 0 THEN sub_bits(b, c, i - 1, 1) \o << t + 2 >>
             ELSE sub_bits(b, c, i - 1, 0) \o << t >>

\* the exact magnitude b rounded to MANTISSA significant bits
RoundBits(b) ==
    LET lead == CHOOSE i \in 1 .. Len(b) : b[i] = 1 /\ \A j \in 1 .. i - 1 : b[j] = 0
        last == lead + MANTISSA - 1
    IN  IF (\A i \in 1 .. Len(b) : b[i] = 0) \/ last >= Len(b)
        THEN PadBits(b, FLOAT_BITS)
        ELSE LET sticky == \E i \in last + 2 .. Len(b) : b[i] = 1
                 up == b[last + 1] = 1 /\ (sticky \/ b[last] = 1)
                 kept == [i \in 1 .. last |-> b[i]]
             IN  PadBits(IF up THEN add_bits(kept, Zeros(last), last, 1) ELSE kept,
                         FLOAT_BITS)

\* the bits of r / 365 after the binary point (r < 365), n of them, and one
\* more that tells whether anything is left
RECURSIVE FracBits(_, _)
FracBits(r, n) ==
    IF n = 0 THEN << IF r # 0 THEN 1 ELSE 0 >>
    ELSE IF 2 * r >= 365 THEN << 1 >> \o FracBits(2 * r - 365, n - 1)
    ELSE << 0 >> \o FracBits(2 * r, n - 1)

IntBits(q) == << (q \div 8) % 2, (q \div 4) % 2, (q \div 2) % 2, q % 2 >>

Float(neg, mag) == [neg |-> neg, mag |-> mag]

\* the float of a small integer n or of n + 0.5
FloatOf(n, half) ==
    Float(FALSE, PadBits(IntBits(n) \o << IF half THEN 1 ELSE 0 >>, FLOAT_BITS))

FLess(f, g) ==
    IF f.neg /\ g.neg THEN BitsLess(g.mag, f.mag)
    ELSE IF f.neg THEN f.mag # Zeros(FLOAT_BITS) \/ g.mag # Zeros(FLOAT_BITS)
    ELSE IF g.neg THEN FALSE
    ELSE BitsLess(f.mag, g.mag)

FAdd(f, g) ==
    IF f.neg = g.neg
    THEN Float(f.neg, RoundBits(add_bits(f.mag, g.mag, FLOAT_BITS, 0)))
    ELSE IF f.mag = g.mag THEN FloatOf(0, FALSE)
    ELSE IF BitsLess(g.mag, f.mag)
    THEN Float(f.neg, RoundBits(sub_bits(f.mag, g.mag, FLOAT_BITS, 0)))
    ELSE Float(g.neg, RoundBits(sub_bits(g.mag, f.mag, FLOAT_BITS, 0)))

FSub(f, g) == FAdd(f, Float(~g.neg, g.mag))

\* age_days / 365.0 for 0 <= age_days < 16 * 365
FDiv365(age_days) ==
    Float(FALSE, RoundBits(IntBits(age_days \div 365)
                           \o FracBits(age_days % 365, FLOAT_BITS - INT_BITS + 2)))

\* min(f, g) of Python: g when g < f, else f
FMin(f, g) == IF FLess(g, f) THEN g ELSE f

_score_date(dt, origin, today) ==
    LET score0 == FloatOf(0, FALSE)
        score1 == IF toordinal(dt) > toordinal(today)
                  THEN FAdd(score0, FloatOf(10, FALSE)) ELSE score0
        score2 == IF origin = "title" THEN FSub(score1, FloatOf(1, FALSE))
                  ELSE IF origin = "url" THEN FSub(score1, FloatOf(0, TRUE))
                  ELSE score1
        age_days == IF toordinal(dt) < toordinal(today)
                    THEN toordinal(today) - toordinal(dt) ELSE 0
    IN  FAdd(score2, FMin(FDiv365(age_days), FloatOf(10, FALSE)))

\* the list scored of _best_candidate, from its element k on
RECURSIVE scored_from(_, _, _)
scored_from(cands, k, today) ==
    IF k > Len(cands) THEN << >>
    ELSE << << cands[k][1], _score_date(cands[k][1], cands[k][2], today) >> >>
         \o scored_from(cands, k + 1, today)

\* cands: a sequence of << dt, origin >>.  The list is sorted by the key
\* (score, -timestamp) and its first element is returned; the timestamps of
\* midnights are ordered as the days are.
_best_candidate(cands, today) ==
    IF cands = << >> THEN NoDate
    ELSE LET scored == scored_from(cands, 1, today)
             before(x, y) == \/ FLess(x[2], y[2])
                             \/ ~FLess(y[2], x[2]) /\ toordinal(x[1]) > toordinal(y[1])
             first == CHOOSE k \in 1 .. Len(scored) :
                        /\ \A j \in 1 .. Len(scored) : ~before(scored[j], scored[k])
                        /\ \A j \in 1 .. k - 1 : before(scored[k], scored[j])
         IN  scored[first][1]

HINT_WINDOW == 200

HintPhrases == << "Board of Education", "BOE", "Meeting Minutes", "Regular Meeting",
                 "Special Meeting", "Workshop Meeting", "Agenda" >>

\* DATE_HINT_WINDOW_RE matched at position i: the first alternative that fits
hint_at(s, i) ==
    LET fits == {k \in 1 .. Len(HintPhrases) :
                   Slice(s, i - 1, i - 1 + Len(HintPhrases[k])) = HintPhrases[k]}
    IN  IF ~IsUpper(Ch(s, i)) \/ fits = {} THEN NoMatch
        ELSE LET p == CHOOSE n \in fits : \A o \in fits : n <= o
             IN  [ok |-> TRUE, start |-> i - 1, end |-> i - 1 + Len(HintPhrases[p]),
                  dt |-> NoDate]

hint_matches(s) == finditer({m \in {hint_at(s, i) : i \in 1 .. Len(s)} : m.ok}, 0)

tagged(dts, src) == [k \in 1 .. Len(dts) |-> << dts[k], src >>]

\* the window around the hint match m
hint_window(text_norm, m) ==
    LET start == IF m.start - HINT_WINDOW > 0 THEN m.start - HINT_WINDOW ELSE 0
        end == IF m.end + HINT_WINDOW < Len(text_norm)
               THEN m.end + HINT_WINDOW ELSE Len(text_norm)
    IN  Slice(text_norm, start, end)

\* the candidates of the windows around the hint matches k .. Len(hints)
RECURSIVE window_candidates(_, _, _, _)
window_candidates(text_norm, hints, k, today) ==
    IF k > Len(hints) THEN << >>
    ELSE tagged(_parse_candidates_from_text(hint_window(text_norm, hints[k]), today),
                "hint-window")
         \o window_candidates(text_norm, hints, k + 1, today)

\* the pool _best_candidate is given
candidate_pool(text, title, url, today) ==
    LET named == tagged(_parse_candidates_from_text(title, today), "title")
                 \o tagged(_parse_candidates_from_text(url, today), "url")
        hinted == IF text = "" THEN << >>
                  ELSE LET text_norm == _normalize_space(text)
                       IN  window_candidates(text_norm, hint_matches(text_norm), 1, today)
        candidates == named \o hinted
    IN  IF candidates = << >> /\ text # ""
        THEN tagged(_parse_candidates_from_text(text, today), "body")
        ELSE candidates

\* variant: the dates of the body are always candidates
guess_meeting_date_allbody(text, title, url, today) ==
    _best_candidate(candidate_pool(text, title, url, today)
                    \o tagged(_parse_candidates_from_text(text, today), "body"), today)

guess_meeting_date(text, title, url, today) ==
    _best_candidate(candidate_pool(text, title, url, today), today)

(***************************************************************************)
(* The date functions on their own, on the day Today: a document (text,     *)
(* title, url) is given to guess_meeting_date, or a pool of candidates to   *)
(* _best_candidate.  The body of a document is a sequence of parts joined   *)
(* by blanks; Filler is longer than a hint window reaches.                  *)
(***************************************************************************)
Today == Dt(2026, 11, 5, 0)

Filler == Rep("x", HINT_WINDOW + 1)

Titles == << "Minutes", "Minutes March 3, 2023", "Minutes March 3, 2010",
            "Minutes November 3, 2025",
            "Minutes 2023-02-31 2028-01-01 March 3, 2023" >>

Urls == << "https://x.org/m.pdf", "https://x.org/2026-06-30/m.pdf" >>

BodyParts == << "March 10, 2023", "November 3, 2026", "2016-01-15", "Agenda", Filler >>

RECURSIVE BodiesOf(_)
BodiesOf(n) ==
    IF n = 0 THEN {""}
    ELSE LET S == BodiesOf(n - 1)
         IN  S \cup {IF t = "" THEN BodyParts[i] ELSE t \o " " \o BodyParts[i] :
                       t \in S, i \in 1 .. Len(BodyParts)}

DocInputs ==
    {[fn |-> "doc", text |-> b, title |-> Titles[i], url |-> Urls[j]] :
       b \in BodiesOf(MaxParts), i \in 1 .. Len(Titles), j \in 1 .. Len(Urls)}

PoolDates == {Dt(2015, 2, 1, 0), Dt(2016, 1, 15, 0), Dt(2023, 3, 3, 0), Dt(2025, 11, 3, 0),
              Dt(2026, 11, 3, 0), Today, Dt(2027, 1, 10, 0)}

Origins == {"title", "url", "hint-window", "body"}

RECURSIVE PoolsOf(_)
PoolsOf(n) ==
    IF n = 0 THEN {<< >>}
    ELSE LET S == PoolsOf(n - 1)
         IN  S \cup {Append(p, << dt, o >>) : p \in S, dt \in PoolDates, o \in Origins}

PoolInputs == {[fn |-> "cands", cands |-> p] : p \in PoolsOf(MaxCands)}

InitDate ==
    /\ InitCommon /\ sameDocs = FALSE
    /\ input \in DocInputs \/ input \in PoolInputs
    /\ output = NoOutput

GuessMeetingDate ==
    /\ input.fn = "doc" /\ output.fn = "none"
    /\ output' = [fn |-> "guess_meeting_date",
                  date |-> guess_meeting_date(input.text, input.title, input.url, Today)]
    /\ UNCHANGED << main, input, crawling >>

BestCandidate ==
    /\ input.fn = "cands" /\ output.fn = "none"
    /\ output' = [fn |-> "_best_candidate", date |-> _best_candidate(input.cands, Today)]
    /\ UNCHANGED << main, input, crawling >>

NextDate == \/ GuessMeetingDate
            \/ BestCandidate

SpecDate == InitDate /\ [][NextDate]_vars

(***************************************************************************)
(* scraper.py: crawl_district.  A page is the sequence of the absolute     *)
(* URLs that urljoin makes of its anchors; the anchors have no text and    *)
(* the pages no script blocks.                                             *)
(***************************************************************************)
BOE_URL == "https://www.delranschools.org/b_o_e"

ALLOWED_DISTRICT_DOMAINS ==
    {"www.delranschools.org", "delranschools.org", "cdnsm5-ss5.sharpschool.com"}

CrawlUrls == << BOE_URL,
                "https://a.delranschools.org/n/",
                "https://delranschools.org/p.html",
                "https://cdnsm5-ss5.sharpschool.com/m.pdf",
                "https://notdelranschools.org/" >>

\* the URLs whose pages have anchors
PageIds == 1 .. 3

UrlIds == 1 .. Len(CrawlUrls)

\* s.find(sub, from)
RECURSIVE Find(_, _, _)
Find(s, sub, from) ==
    IF from + Len(sub) > Len(s) THEN -1
    ELSE IF Slice(s, from, from + Len(sub)) = sub THEN from
    ELSE Find(s, sub, from + 1)

EndsWith(s, suffix) == Len(s) >= Len(suffix) /\ Slice(s, Len(s) - Len(suffix), Len(s)) = suffix

\* the end of the netloc that starts at position from: the first of / ? #
RECURSIVE NetlocEnd(_, _)
NetlocEnd(s, from) ==
    IF from >= Len(s) \/ At(s, from + 1) \in {"/", "?", "#"} THEN from
    ELSE NetlocEnd(s, from + 1)

\* urlparse(url).netloc.lower() of an absolute URL scheme://netloc...
domain_of(url) ==
    LET i == Find(url, "://", 0)
    IN  IF i = -1 THEN "" ELSE lower(Slice(url, i + 3, NetlocEnd(url, i + 3)))

is_allowed_domain(url, allowed) ==
    LET dom == domain_of(url)
    IN  \E a \in allowed : dom = a \/ EndsWith(dom, "." \o a)

\* the URLs of the model, and those of them that is_allowed_domain accepts
\* for ALLOWED_DISTRICT_DOMAINS, the only set the program passes
UrlSet == {CrawlUrls[k] : k \in 1 .. Len(CrawlUrls)}

AllowedUrls == {u \in UrlSet : is_allowed_domain(u, ALLOWED_DISTRICT_DOMAINS)}

DOC_EXTS == {".pdf", ".docx", ".doc", ".htm", ".html"}

IsDocLink(full) ==
    \/ Find(full, "DisplayFile.aspx", 0) # -1
    \/ \E e \in DOC_EXTS : EndsWith(lower(full), e)

\* the URLs of the model that collect_links_from_html takes for documents
DocUrls == {u \in UrlSet : IsDocLink(u)}

\* the anchors of the page of CrawlUrls[p] in the link graph g, in page order
RECURSIVE page_links(_, _, _)
page_links(g, p, k) ==
    IF k > Len(CrawlUrls) THEN << >>
    ELSE (IF << p, k >> \in g THEN << CrawlUrls[k] >> ELSE << >>) \o page_links(g, p, k + 1)

\* resp.text of the page at url: its anchors
html_of(g, url) ==
    IF \E p \in PageIds : CrawlUrls[p] = url
    THEN page_links(g, CHOOSE p \in PageIds : CrawlUrls[p] = url, 1)
    ELSE << >>

district_source(full) ==
    IF Find(domain_of(full), "cdnsm", 0) # -1 \/ Find(domain_of(full), "sharpschool", 0) # -1
    THEN "district-cdn" ELSE "district"

CdnUrls == {u \in UrlSet : district_source(u) = "district-cdn"}

\* the loop over the anchors of collect_links_from_html, from anchor k on
RECURSIVE collect_links_from(_, _, _)
collect_links_from(anchors, k, seen) ==
    IF k > Len(anchors) THEN << >>
    ELSE LET full == anchors[k]
         IN  IF full \in DocUrls /\ full \notin seen
             THEN << [title |-> full, url |-> full,
                      source |-> IF full \in CdnUrls THEN "district-cdn" ELSE "district"] >>
                  \o collect_links_from(anchors, k + 1, seen \cup {full})
             ELSE collect_links_from(anchors, k + 1, seen)

collect_links_from_html(anchors) == collect_links_from(anchors, 1, {})

IsHtmlLike(nxt) ==
    \/ \E e \in {".htm", ".html", "/"} : EndsWith(lower(nxt), e)
    \/ Find(nxt, "b_o_e", 0) # -1

HtmlLikeUrls == {u \in UrlSet : IsHtmlLike(u)}

\* the pairs that the page's anchors add to the queue
RECURSIVE next_level(_, _, _, _)
next_level(anchors, k, seen, depth) ==
    IF k > Len(anchors) THEN << >>
    ELSE (IF /\ anchors[k] \notin seen
             /\ anchors[k] \in AllowedUrls
             /\ anchors[k] \in HtmlLikeUrls
          THEN << << anchors[k], depth + 1 >> >> ELSE << >>)
         \o next_level(anchors, k + 1, seen, depth)

\* "Deduplicate by URL" left out
dedupe_by_url_none(its, k, seen) == its

\* "Deduplicate by URL": the first item of every url, from item k on
RECURSIVE dedupe_by_url(_, _, _)
dedupe_by_url(its, k, seen) ==
    IF k > Len(its) THEN << >>
    ELSE IF its[k].url \in seen THEN dedupe_by_url(its, k + 1, seen)
    ELSE << its[k] >> \o dedupe_by_url(its, k + 1, seen \cup {its[k].url})

\* the link graphs: at most MaxEdges anchors over all pages
Graphs == {g \in SUBSET (PageIds \X UrlIds) : Cardinality(g) <= MaxEdges}

StartLists == { << CrawlUrls[2] >>, << CrawlUrls[2], CrawlUrls[1] >>,
                << CrawlUrls[5], CrawlUrls[2] >>, << CrawlUrls[2], CrawlUrls[2] >> }

CrawlInputs == [fn : {"crawl"}, graph : Graphs, start_urls : StartLists,
                max_pages : 0 .. MaxPages, max_depth : 0 .. MaxDepth]

InitCrawl ==
    /\ InitCommon /\ sameDocs = FALSE
    /\ input \in CrawlInputs
    /\ output = NoOutput

\* for u in start_urls: queue.append((u, 0))
CrawlStart ==
    /\ input.fn = "crawl" /\ crawl_pc = "idle"
    /\ queue' = [k \in 1 .. Len(input.start_urls) |-> << input.start_urls[k], 0 >>]
    /\ crawl_pc' = "loop"
    /\ UNCHANGED << main, input, output, visited, results, fetches >>

InLoop == crawl_pc = "loop" /\ queue # << >> /\ Cardinality(visited) < input.max_pages

\* if url in visited: continue
CrawlSkipVisited ==
    /\ InLoop /\ Head(queue)[1] \in visited
    /\ queue' = Tail(queue)
    /\ UNCHANGED << main, input, output, visited, results, fetches, crawl_pc >>

\* if not is_allowed_domain(url, allowed_domains): continue
CrawlSkipDomain ==
    /\ InLoop /\ Head(queue)[1] \notin visited
    /\ Head(queue)[1] \notin AllowedUrls
    /\ queue' = Tail(queue)
    /\ visited' = visited \cup {Head(queue)[1]}
    /\ UNCHANGED << main, input, output, results, fetches, crawl_pc >>

\* fetch(url) raises
CrawlFetchFailed ==
    /\ InLoop /\ Head(queue)[1] \notin visited
    /\ Head(queue)[1] \in AllowedUrls
    /\ queue' = Tail(queue)
    /\ visited' = visited \cup {Head(queue)[1]}
    /\ fetches' = Append(fetches, [url |-> Head(queue)[1], depth |-> Head(queue)[2], ok |-> FALSE])
    /\ UNCHANGED << main, input, output, results, crawl_pc >>

\* fetch(url) returns the page
CrawlPage ==
    /\ InLoop /\ Head(queue)[1] \notin visited
    /\ Head(queue)[1] \in AllowedUrls
    /\ LET url == Head(queue)[1]
           depth == Head(queue)[2]
           anchors == html_of(input.graph, url)
       IN  /\ visited' = visited \cup {url}
           /\ fetches' = Append(fetches, [url |-> url, depth |-> depth, ok |-> TRUE])
           /\ results' = results \o collect_links_from_html(anchors)
           /\ queue' = Tail(queue) \o
                       (IF depth < input.max_depth
                        THEN next_level(anchors, 1, visited \cup {url}, depth)
                        ELSE << >>)
    /\ UNCHANGED << main, input, output, crawl_pc >>

\* the loop is left; return out
CrawlReturn ==
    /\ crawl_pc = "loop" /\ ~InLoop
    /\ output' = [fn |-> "crawl_district", out |-> dedupe_by_url(results, 1, {})]
    /\ crawl_pc' = "done"
    /\ UNCHANGED << main, input, queue, visited, results, fetches >>

NextCrawl == \/ CrawlStart
             \/ CrawlSkipVisited
             \/ CrawlSkipDomain
             \/ CrawlFetchFailed
             \/ CrawlPage
             \/ CrawlReturn

SpecCrawl == InitCrawl /\ [][NextCrawl]_vars

\* every call of crawl_district goes on until it returns or raises
SpecCrawlFair == SpecCrawl /\ WF_vars(NextCrawl)

(***************************************************************************)
(* Properties                                                               *)
(***************************************************************************)
ScanOver == pc = "write"

Doc(i) == Corpus[items[i]]

DocFps(d) == {Fingerprint(d.url, d.mentions[j]) : j \in 1 .. Len(d.mentions)}

AllFps == UNION {DocFps(Corpus[d]) : d \in DocIds}

\* number of mentions kept in results_for_email whose fingerprint is fp
EmitCount(fp) ==
    LET n[k \in 0 .. Len(results_for_email)] ==
          IF k = 0 THEN 0
          ELSE n[k - 1] +
               Cardinality({j \in 1 .. Len(results_for_email[k].mentions) :
                              Fingerprint(results_for_email[k].url,
                                          results_for_email[k].mentions[j]) = fp})
    IN  n[Len(results_for_email)]

\* the run follows a run over the same documents; both have dedupe on, the
\* earlier one saved its state and the state file was not touched since
SecondOfTwo ==
    /\ sameDocs /\ prev.ran /\ prev.persisted /\ ~prev.ignore
    /\ ~cfg.IGNORE_DEDUPE /\ ~tampered
    /\ ScanOver

\* C1 (as stated): a second dedupe-enabled run over the same documents emits
\* no mention at all.
C1_SecondRunEmitsNothing ==
    SecondOfTwo => results_for_email = << >> /\ rows_for_csv = << >>

\* C1 (amended): a second dedupe-enabled run over the same documents emits
\* mentions only of documents that the first run skipped for their date, and
\* emits nothing when the first run skipped no document for its date.
C1_SecondRunEmitsOnlyDateSkipped ==
    SecondOfTwo =>
      /\ \A i \in 1 .. Len(scanned_log) :
           scanned_log[i].status = "matched" => prev.log[i] = "date-skipped"
      /\ (\A i \in 1 .. Len(prev.log) : prev.log[i] # "date-skipped")
           => results_for_email = << >> /\ rows_for_csv = << >>

C1_Witness ==
    /\ SecondOfTwo
    /\ \E i \in 1 .. Len(scanned_log) :
         /\ prev.log[i] = "matched"
         /\ scanned_log[i].reason = "only duplicates (already reported)"

\* C2: with dedupe on in every run and the state file intact, no fingerprint
\* is emitted twice, neither within one run nor in two runs.
C2_AtMostOnce ==
    (~ignoreUsed /\ ~tampered) =>
      \A fp \in AllFps : EmitCount(fp) + (IF fp \in reported THEN 1 ELSE 0) <= 1

\* C3: with dedupe on, no kept mention has a fingerprint of the loaded set,
\* and a document that reaches the dedupe filter with all its mentions in the
\* loaded set is logged as scanned / only duplicates.
C3_DedupeFilter ==
    ~cfg.IGNORE_DEDUPE =>
      /\ EmittedFps \cap seen_hashes = {}
      /\ \A j \in 1 .. Len(rows_for_csv) :
           sha1_of(rows_for_csv[j][3], rows_for_csv[j][4],
                   Prefix(rows_for_csv[j][5], FP_SNIPPET_PREFIX)) \notin seen_hashes
      /\ \A i \in 1 .. Len(scanned_log) :
           (/\ scanned_log[i].status \in {"scanned", "matched"}
            /\ Doc(i).mentions # << >>
            /\ DocFps(Doc(i)) \subseteq seen_hashes)
           => /\ scanned_log[i].status = "scanned"
              /\ scanned_log[i].reason = "only duplicates (already reported)"

C3_Witness ==
    /\ ~cfg.IGNORE_DEDUPE /\ pc = "write"
    /\ \E i \in 1 .. Len(scanned_log) :
         scanned_log[i].reason = "only duplicates (already reported)"
    /\ \E i \in 1 .. Len(scanned_log) : scanned_log[i].status = "matched"

SeenOf(f) == IF f.kind = "object" THEN f.data.seen_hashes ELSE {}

Saved == pc = "write" /\ pc' = "exit" /\ exit' \in {"ok", "fatal: email settings", "fatal: send"}

\* C4: the persisted seen set never loses an element while the file is
\* intact; a run with dedupe on saves the loaded set plus the fingerprints of
\* the mentions it kept, a run with dedupe off saves the loaded set.
C4_SeenOnlyGrows ==
    [][ /\ ~tampered' => SeenOf(file) \subseteq SeenOf(file')
        /\ Saved =>
             SeenOf(file') = IF cfg.IGNORE_DEDUPE THEN seen_hashes
                             ELSE seen_hashes \cup EmittedFps ]_vars

C4_Witness ==
    /\ pc = "exit" /\ exit = "ok" /\ ~cfg.IGNORE_DEDUPE
    /\ seen_hashes # {} /\ new_hashes # {}
    /\ SeenOf(file) = seen_hashes \cup new_hashes

EpochWindow == [start |-> Dt(2021, 1, 1, 0), end |-> now, is_backfill |-> TRUE]

MonthWindow == [start |-> Dt(now.y, now.m, 1, 0), end |-> now, is_backfill |-> FALSE]

YearWindow == [start |-> Dt(cfg.YEAR, 1, 1, 0), end |-> Dt(cfg.YEAR, 12, 31, 86399),
               is_backfill |-> TRUE]

\* the state dict is as loaded until it is updated for saving
Scanning == pc \in {"scan", "write"}

\* C5 (as stated): the window of a run depends on backfill_done alone:
\* [2021-01-01, now] as a backfill if it is false, else [first of the month,
\* now] as an incremental run.
C5_WindowFromBackfillDone ==
    Scanning => range = IF ~state.backfill_done THEN EpochWindow ELSE MonthWindow

\* C5 (amended): that rule holds when neither YEAR nor FORCE_FULL_RESCAN is
\* set; with YEAR the window is that calendar year, and with FORCE_FULL_RESCAN
\* and no YEAR it is [2021-01-01, now], both as backfill runs.
C5_WindowFromConfigAndBackfillDone ==
    Scanning =>
      range = IF cfg.YEAR # NoYear THEN YearWindow
              ELSE IF cfg.FORCE_FULL_RESCAN THEN EpochWindow
              ELSE IF ~state.backfill_done THEN EpochWindow
              ELSE MonthWindow

C5_Witness ==
    /\ pc = "scan" /\ DefaultWindowConfig(cfg) /\ state.backfill_done
    /\ range.start = Dt(2022, 3, 1, 0) /\ ~range.is_backfill

\* C6: a run with a backfill window that saves the state saves backfill_done
\* = TRUE; the flag stays TRUE in the file while the file is intact; and
\* every later run with neither YEAR nor FORCE_FULL_RESCAN has the monthly
\* window.
C6_BackfillOnce ==
    /\ [][ (Saved /\ range.is_backfill) =>
             (file'.kind = "object" /\ file'.data.backfill_done) ]_vars
    /\ [][ (file.kind = "object" /\ file.data.backfill_done /\ ~tampered') =>
             (file'.kind = "object" /\ file'.data.backfill_done) ]_vars
    /\ [](( /\ Scanning /\ backfilled /\ ~tampered
            /\ DefaultWindowConfig(cfg) ) => range = MonthWindow)

C6_Witness ==
    /\ pc = "scan" /\ backfilled /\ ~tampered /\ DefaultWindowConfig(cfg)
    /\ range = MonthWindow /\ file.data.backfill_done

\* C7: every run that saves the state saves last_run_end = now.
C7_LastRunEndIsNow ==
    (pc = "exit" /\ exit \in {"ok", "fatal: email settings", "fatal: send"})
      => file.data.last_run_end = IsoFormat(now)

\* the mentions the dedupe filter lets through, written out for document d
Unseen(d) ==
    SelectSeq(d.mentions,
              LAMBDA m : sha1_of(d.url, m.keyword, Prefix(m.snippet, 160))
                           \notin seen_hashes)

Passing(d) == IF cfg.IGNORE_DEDUPE THEN d.mentions ELSE Unseen(d)

HasRecord(d, ms) ==
    \E k \in 1 .. Len(results_for_email) :
      results_for_email[k].url = d.url /\ results_for_email[k].mentions = ms

\* C8: a document with text and no inferred date is never skipped for its
\* date, whatever the window and MIN_YEAR; its mentions that pass the dedupe
\* filter are emitted.
C8_NoDateInRange ==
    Scanning =>
      \A i \in 1 .. Len(scanned_log) :
        (Doc(i).meeting_dt = NoDate /\ texts[i] = "text") =>
          /\ scanned_log[i].status # "skipped"
          /\ scanned_log[i].reason # "out of date range"
          /\ Passing(Doc(i)) # << >> =>
               /\ scanned_log[i].status = "matched"
               /\ HasRecord(Doc(i), Passing(Doc(i)))

C8_Witness ==
    /\ pc = "write" /\ cfg.MIN_YEAR # NoYear /\ ~range.is_backfill
    /\ \E i \in 1 .. Len(scanned_log) :
         /\ Doc(i).meeting_dt = NoDate /\ texts[i] = "text"
         /\ scanned_log[i].status = "matched"

TooOld(d) == cfg.MIN_YEAR # NoYear /\ d.meeting_dt # NoDate /\ d.meeting_dt.y < cfg.MIN_YEAR

\* C9: with MIN_YEAR set, a document with text whose inferred year is below
\* MIN_YEAR is logged as skipped, none of its mentions is emitted and none of
\* its fingerprints is added to the seen set.
C9_MinYearFilter ==
    /\ [](Scanning =>
            \A i \in 1 .. Len(scanned_log) :
              (texts[i] = "text" /\ TooOld(Doc(i))) =>
                /\ scanned_log[i].status = "skipped"
                /\ \A k \in 1 .. Len(results_for_email) :
                     results_for_email[k].url # Doc(i).url
                /\ \A j \in 1 .. Len(rows_for_csv) : rows_for_csv[j][3] # Doc(i).url
                /\ DocFps(Doc(i)) \cap new_hashes = {})
    /\ [][ Saved =>
             \A i \in 1 .. Len(scanned_log) :
               (texts[i] = "text" /\ TooOld(Doc(i))) =>
                 DocFps(Doc(i)) \cap SeenOf(file') \subseteq seen_hashes ]_vars

C9_Witness ==
    /\ pc = "write" /\ cfg.MIN_YEAR = 2022
    /\ \E i \in 1 .. Len(scanned_log) :
         /\ texts[i] = "text" /\ Doc(i).meeting_dt = Dt(2021, 5, 1, 0)
         /\ Doc(i).mentions # << >>
         /\ DtLeq(range.start, Doc(i).meeting_dt) /\ DtLeq(Doc(i).meeting_dt, range.end)
         /\ scanned_log[i].reason = "before MIN_YEAR 2022"

InWindow(d) ==
    d.meeting_dt = NoDate
      \/ (DtLeq(range.start, d.meeting_dt) /\ DtLeq(d.meeting_dt, range.end))

NewMentions(n) == ToString(n) \o " new mention(s)"

\* the outcome of item i by the order of conditions of the claim as stated:
\* dedupe is taken to be always on
StatedOutcome(i) ==
    LET d == Doc(i)
    IN  IF texts[i] = "raise" THEN << "error", "fetch/extract error" >>
        ELSE IF texts[i] = "empty" THEN << "skipped", "no text extracted" >>
        ELSE IF TooOld(d)
             THEN << "skipped", "before MIN_YEAR " \o ToString(cfg.MIN_YEAR) >>
        ELSE IF ~InWindow(d) THEN << "skipped", "out of date range" >>
        ELSE IF d.mentions = << >> THEN << "scanned", "no preschool mentions" >>
        ELSE IF Unseen(d) = << >>
             THEN << "scanned", "only duplicates (already reported)" >>
        ELSE << "matched", NewMentions(Len(Unseen(d))) >>

\* the same with the dedupe filter as configured
AmendedOutcome(i) ==
    LET d == Doc(i)
    IN  IF texts[i] = "raise" THEN << "error", "fetch/extract error" >>
        ELSE IF texts[i] = "empty" THEN << "skipped", "no text extracted" >>
        ELSE IF TooOld(d)
             THEN << "skipped", "before MIN_YEAR " \o ToString(cfg.MIN_YEAR) >>
        ELSE IF ~InWindow(d) THEN << "skipped", "out of date range" >>
        ELSE IF d.mentions = << >> THEN << "scanned", "no preschool mentions" >>
        ELSE IF Passing(d) = << >>
             THEN << "scanned", "only duplicates (already reported)" >>
        ELSE << "matched", NewMentions(Len(Passing(d))) >>

OneRecordEach ==
    /\ Len(scanned_log) = idx - 1
    /\ pc = "write" => Len(scanned_log) = Len(items)
    /\ \A i \in 1 .. Len(scanned_log) : scanned_log[i].url = Doc(i).url

OnlyMatchedContribute ==
    /\ \A k \in 1 .. Len(results_for_email) :
         \E i \in 1 .. Len(scanned_log) :
           /\ scanned_log[i].status = "matched"
           /\ scanned_log[i].url = results_for_email[k].url
    /\ \A j \in 1 .. Len(rows_for_csv) :
         \E i \in 1 .. Len(scanned_log) :
           /\ scanned_log[i].status = "matched"
           /\ scanned_log[i].url = rows_for_csv[j][3]

\* C10 (as stated): every item gets exactly one scan-log record whose status
\* follows the first applicable condition in the order error, no text, before
\* MIN_YEAR, out of range, no mentions, every mention already seen (scanned),
\* else matched with N new mentions; only matched documents are in the output.
C10_OutcomeOrder ==
    Scanning =>
      /\ OneRecordEach
      /\ \A i \in 1 .. Len(scanned_log) :
           << scanned_log[i].status, scanned_log[i].reason >> = StatedOutcome(i)
      /\ OnlyMatchedContribute

\* C10 (amended): the same, where "every mention already seen" gives scanned
\* only with IGNORE_DEDUPE off; with IGNORE_DEDUPE on a document with
\* mentions is matched with all its mentions.
C10_OutcomeOrderWithIgnore ==
    Scanning =>
      /\ OneRecordEach
      /\ \A i \in 1 .. Len(scanned_log) :
           << scanned_log[i].status, scanned_log[i].reason >> = AmendedOutcome(i)
      /\ OnlyMatchedContribute

C10_Witness ==
    /\ pc = "write" /\ cfg.IGNORE_DEDUPE
    /\ \E i \in 1 .. Len(scanned_log) :
         scanned_log[i].status = "skipped" /\ scanned_log[i].reason = "out of date range"
    /\ \E i \in 1 .. Len(scanned_log) :
         /\ scanned_log[i].status = "matched"
         /\ DocFps(Doc(i)) \subseteq seen_hashes

\* one iteration of the scan loop in which fetching or extracting failed
FailedStep == pc = "scan" /\ idx' = idx + 1 /\ fetched' \in {"fetch failed", "extract raised"}

\* C11: when fetching or extracting a document fails, the document gets one
\* scan-log record with status error, nothing of it is emitted, and the loop
\* goes on with the next document, or to the writing of the outputs after
\* the last one.
C11_FailureIsolation ==
    [][ FailedStep =>
          /\ Len(scanned_log') = Len(scanned_log) + 1
          /\ scanned_log'[idx].url = Doc(idx).url
          /\ scanned_log'[idx].status = "error"
          /\ results_for_email' = results_for_email
          /\ rows_for_csv' = rows_for_csv
          /\ items' = items
          /\ pc' = IF idx < Len(items) THEN "scan" ELSE "write" ]_vars

\* the state file is absent, unreadable, not JSON, or JSON of the wrong shape
Unusable(f) == f.kind # "object" \/ f.data.bad_list

\* C12: a run that starts with an unusable state file goes on with the empty
\* state (nothing seen, backfill not done, no last_run_end) and is not
\* aborted.
C12_StateLoadNeverFatal ==
    [][ (pc = "idle" /\ runs' = runs + 1 /\ Unusable(file)) =>
          /\ pc' \in {"scan", "write"}
          /\ exit' = "running"
          /\ state' = EmptyState
          /\ seen_hashes' = {} ]_vars

\* C13: a run that ends does so successfully unless writing the outputs or
\* the state failed or the delivery settings are missing; in particular a
\* run without matches and with the settings present ends successfully.
C13_FatalOnlyOnWriteOrSettings ==
    pc = "exit" =>
      exit \in {"ok", "fatal: write", "fatal: save", "fatal: email settings"}

\* sub occurs in s
Contains(s, sub) ==
    \E i \in 0 .. Len(s) - Len(sub) : Slice(s, i, i + Len(sub)) = sub

\* C14: the snippet of every mention found in a text contains the matched
\* literal.
C14_SnippetContainsLiteral ==
    output.fn = "find_preschool_mentions" =>
      \A k \in 1 .. Len(output.mentions) :
        Contains(output.mentions[k].snippet, output.mentions[k].keyword)

\* C15: the snippet built for a match span is at most target_len long.
C15_SnippetLength ==
    output.fn = "_bounded_context" => Len(output.snippet) <= output.target_len

\* C16: normalising a normalised text changes nothing, and the normalised
\* text is not longer than the text.
C16_NormalizeIdempotent ==
    output.fn = "_normalize_space" =>
      /\ output.twice = output.once
      /\ Len(output.once) <= Len(input.text)

C16_Witness ==
    /\ output.fn = "_normalize_space"
    /\ Contains(input.text, NBSP \o " ")
    /\ Contains(input.text, "\n")
    /\ Len(output.once) < Len(input.text)
    /\ Contains(output.once, "pk")

\* all (url, mention) pairs of the documents
UrlMentions ==
    UNION { {<< Corpus[d].url, Corpus[d].mentions[j] >> : j \in 1 .. Len(Corpus[d].mentions)} :
            d \in DocIds }

\* mentions with the same url, keyword and first 160 snippet characters have
\* the same fingerprint
SameKeySameFingerprint ==
    \A a, b \in UrlMentions :
      ( /\ a[1] = b[1]
        /\ a[2].keyword = b[2].keyword
        /\ Prefix(a[2].snippet, 160) = Prefix(b[2].snippet, 160) )
      => Fingerprint(a[1], a[2]) = Fingerprint(b[1], b[2])

Kept(url, m) ==
    \E k \in 1 .. Len(results_for_email) :
      /\ results_for_email[k].url = url
      /\ \E j \in 1 .. Len(results_for_email[k].mentions) :
           results_for_email[k].mentions[j] = m

\* the fingerprints of the mentions of the documents with another URL
FpsOfOtherUrls(url) ==
    UNION {DocFps(Corpus[d]) : d \in {e \in DocIds : Corpus[e].url # url}}

\* C18: two documents with different URLs and the same (keyword, snippet)
\* have different fingerprints; and when all that is in the seen set comes
\* from documents with other URLs, every mention of a document that reaches
\* the dedupe filter is kept.
C18_NoCrossDocumentDedupe ==
    /\ \A a, b \in UrlMentions :
         (a[1] # b[1] /\ a[2] = b[2]) => Fingerprint(a[1], a[2]) # Fingerprint(b[1], b[2])
    /\ (Scanning /\ ~cfg.IGNORE_DEDUPE) =>
         \A i \in 1 .. Len(scanned_log) :
           ( /\ scanned_log[i].status \in {"scanned", "matched"}
             /\ seen_hashes \subseteq FpsOfOtherUrls(Doc(i).url) )
           => \A j \in 1 .. Len(Doc(i).mentions) : Kept(Doc(i).url, Doc(i).mentions[j])

C18_Witness ==
    /\ pc = "write" /\ ~cfg.IGNORE_DEDUPE
    /\ \E i \in 1 .. Len(scanned_log) :
         \E a \in UrlMentions :
           /\ a[1] # Doc(i).url
           /\ Fingerprint(a[1], a[2]) \in seen_hashes
           /\ \E j \in 1 .. Len(Doc(i).mentions) : Doc(i).mentions[j] = a[2]
           /\ Kept(Doc(i).url, a[2])

\* the dates written in s, whatever their year
WrittenDates(s) ==
    LET all == date_matches(1, s) \o date_matches(2, s) \o date_matches(3, s)
    IN  {all[k].dt : k \in 1 .. Len(all)} \ {NoDate}

HintWindows(text) ==
    LET text_norm == _normalize_space(text)
        hints == hint_matches(text_norm)
    IN  {hint_window(text_norm, hints[k]) : k \in 1 .. Len(hints)}

\* the dates the source s gives as candidates
CandidateDates(s) ==
    LET c == _parse_candidates_from_text(s, Today)
    IN  {c[k] : k \in 1 .. Len(c)}

HintDates(text) == UNION {CandidateDates(w) : w \in HintWindows(text)}

\* C19 as stated: when the title contains a date and the body contains a
\* different date, with no date of the body inside a hint window, the date
\* guess_meeting_date returns is the title's date.
C19_TitleDateNeverBodyDate ==
    output.fn = "guess_meeting_date" =>
      ( /\ WrittenDates(input.title) # {}
        /\ WrittenDates(input.text) \ WrittenDates(input.title) # {}
        /\ UNION {WrittenDates(w) : w \in HintWindows(input.text)} = {}
        => output.date \in WrittenDates(input.title) )

\* C19 as amended: when the title, the URL or a hint window gives a
\* candidate, the returned date is one of their candidates, so a date that
\* only the body gives is returned only when they give none; and when the
\* title alone gives candidates, the returned date is a date of the title.
C19_BodyOnlyAsLastResort ==
    output.fn = "guess_meeting_date" =>
      LET t == CandidateDates(input.title)
          u == CandidateDates(input.url)
          h == HintDates(input.text)
      IN  /\ (t # {} \/ u # {} \/ h # {})
               => (output.date \in t \/ output.date \in u \/ output.date \in h)
          /\ (t # {} /\ u = {} /\ h = {}) => output.date \in t

\* the title's date is returned although the body holds a later date and,
\* far from it, a hint phrase
C19_Witness ==
    /\ output.fn = "guess_meeting_date"
    /\ input.title = "Minutes March 3, 2023"
    /\ CandidateDates(input.url) = {}
    /\ Dt(2026, 11, 3, 0) \in WrittenDates(input.text)
    /\ HintWindows(input.text) # {}
    /\ HintDates(input.text) = {}
    /\ output.date = Dt(2023, 3, 3, 0)

\* the score of the stated rule, times 730 (in whole numbers: 10 is 7300,
\* 1.0 is 730, 0.5 is 365 and ageInDays / 365 is 2 * ageInDays)
RuleScore(c) ==
    LET ageInDays == IF toordinal(c[1]) < toordinal(Today)
                     THEN toordinal(Today) - toordinal(c[1]) ELSE 0
        capped == IF 2 * ageInDays < 7300 THEN 2 * ageInDays ELSE 7300
    IN  (IF toordinal(c[1]) > toordinal(Today) THEN 7300 ELSE 0)
        - (IF c[2] = "title" THEN 730 ELSE IF c[2] = "url" THEN 365 ELSE 0)
        + capped

\* C20: _best_candidate returns none exactly for the empty pool, and else the
\* date of a candidate of the lowest score of the rule that is the latest of
\* the candidates of that score.
C20_SelectionRule ==
    output.fn = "_best_candidate" =>
      LET pool == input.cands
          lowest(k) == \A j \in 1 .. Len(pool) : RuleScore(pool[k]) <= RuleScore(pool[j])
      IN  /\ output.date = NoDate <=> pool = << >>
          /\ pool # << >> =>
               \E k \in 1 .. Len(pool) :
                 /\ lowest(k) /\ pool[k][1] = output.date
                 /\ \A j \in 1 .. Len(pool) :
                      lowest(j) => toordinal(pool[j][1]) <= toordinal(pool[k][1])

PlausibleYear(dt) == 2015 <= dt.y /\ dt.y <= Today.y + 1

\* the literals of s that the date patterns match and that do not parse
Unparsed(s) ==
    LET all == date_matches(1, s) \o date_matches(2, s) \o date_matches(3, s)
    IN  {k \in 1 .. Len(all) : all[k].dt = NoDate}

\* C21: a date that guess_meeting_date returns has its year in 2015 ..
\* currentYear + 1; and no literal that fails to parse or whose year is out
\* of that range keeps the other dates from being found: when the title, the
\* URL or the text holds a date of such a year, a date is returned.
C21_PlausibleYearOnly ==
    output.fn = "guess_meeting_date" =>
      /\ output.date # NoDate => PlausibleYear(output.date)
      /\ ( \/ \E dt \in WrittenDates(input.title) : PlausibleYear(dt)
           \/ \E dt \in WrittenDates(input.url) : PlausibleYear(dt)
           \/ \E dt \in WrittenDates(input.text) : PlausibleYear(dt) )
         => output.date # NoDate

\* a title with a literal that does not parse and a date of the year 2028
\* before the date that is returned
C21_Witness ==
    /\ output.fn = "guess_meeting_date"
    /\ Unparsed(input.title) # {}
    /\ Dt(2028, 1, 1, 0) \in WrittenDates(input.title)
    /\ CandidateDates(input.url) = {}
    /\ input.text = ""
    /\ output.date = Dt(2023, 3, 3, 0)

\* the mention that the k-th keyword match of the text gives
Occurrence(k) ==
    LET span == keyword_spans(input.text, 1)[k]
    IN  [keyword |-> Slice(input.text, span[1], span[2]),
         snippet |-> _bounded_context(input.text, span, output.target_len)]

Occurrences == [k \in 1 .. Len(keyword_spans(input.text, 1)) |-> Occurrence(k)]

Identical(a, b) == a = b

SameButForCase(a, b) == lower(a.keyword) = lower(b.keyword)
                        /\ lower(a.snippet) = lower(b.snippet)

\* the occurrences from the k-th on that no earlier occurrence equals
\* (up to the case of the letters when anyCase), in order
RECURSIVE FirstsFrom(_, _, _)
FirstsFrom(occ, k, anyCase) ==
    IF k > Len(occ) THEN << >>
    ELSE (IF \E j \in 1 .. k - 1 :
               IF anyCase THEN SameButForCase(occ[j], occ[k]) ELSE Identical(occ[j], occ[k])
          THEN << >> ELSE << occ[k] >>)
         \o FirstsFrom(occ, k + 1, anyCase)

NoTwoIdentical(ms) == \A i, j \in 1 .. Len(ms) : i # j => ms[i] # ms[j]

\* C22 as stated: no two of the returned mentions are the same pair, and the
\* mentions are, in the order of the matches, the occurrences that no earlier
\* occurrence equals in keyword and snippet.
C22_OneMentionPerOccurrence ==
    output.fn = "find_preschool_mentions" =>
      /\ NoTwoIdentical(output.mentions)
      /\ output.mentions = FirstsFrom(Occurrences, 1, FALSE)

\* C22 as amended: the same, with an occurrence dropped when an earlier one
\* has the same keyword and snippet up to the case of the letters.
C22_OneMentionPerOccurrenceUpToCase ==
    output.fn = "find_preschool_mentions" =>
      /\ NoTwoIdentical(output.mentions)
      /\ output.mentions = FirstsFrom(Occurrences, 1, TRUE)

\* two matches that differ in the case of the keyword alone: the second is
\* dropped
C22_Witness ==
    /\ output.fn = "find_preschool_mentions"
    /\ Len(Occurrences) = 2
    /\ Occurrences[1] # Occurrences[2]
    /\ SameButForCase(Occurrences[1], Occurrences[2])
    /\ output.mentions = << Occurrences[1] >>

\* the rows that the scan of the discovered items gives from the loaded
\* state st
RECURSIVE RowsFrom(_, _)
RowsFrom(st, i) ==
    IF i > Len(items) THEN << >>
    ELSE ProcessDoc(Doc(i), texts[i], cfg, compute_run_range(st, now, cfg),
                    st.seen_hashes).rows
         \o RowsFrom(st, i + 1)

LoadedStates == [seen_hashes : SUBSET AllFps, backfill_done : BOOLEAN,
                 last_run_end : {NullEnd}, bad_list : {FALSE}]

\* C23: with FORCE_FULL_RESCAN on, the window is [2021-01-01, now] and the
\* mentions reported at the end of the scan are those that the scan of the
\* same documents reports from any other loaded state.
C23_ForceFullRescanOverridesState ==
    (ScanOver /\ cfg.FORCE_FULL_RESCAN) =>
      /\ range = EpochWindow
      /\ \A st \in LoadedStates : rows_for_csv = RowsFrom(st, 1)

\* the run has ended after save_state returned
SavedRun == pc = "exit" /\ exit \in {"ok", "fatal: email settings", "fatal: send"}

\* C24: with IGNORE_DEDUPE on, every document with text that passes the
\* MIN_YEAR and window checks and has mentions gets a record with all of its
\* mentions, whatever the loaded seen set holds; and a run that has saved the
\* state has left seen_hashes as loaded, has set backfill_done after a
\* backfill window and has set last_run_end.
C24_IgnoreDedupeBypassesFilter ==
    /\ (Scanning /\ cfg.IGNORE_DEDUPE) =>
         \A i \in 1 .. Len(scanned_log) :
           (/\ texts[i] = "text" /\ ~TooOld(Doc(i)) /\ InWindow(Doc(i))
            /\ Doc(i).mentions # << >>)
           => /\ scanned_log[i].status = "matched"
              /\ HasRecord(Doc(i), Doc(i).mentions)
    /\ (SavedRun /\ cfg.IGNORE_DEDUPE) =>
         /\ file.kind = "object"
         /\ file.data.seen_hashes = seen_hashes
         /\ range.is_backfill => file.data.backfill_done
         /\ file.data.last_run_end = IsoFormat(range.end)

\* a run with IGNORE_DEDUPE on has emitted a mention whose fingerprint was in
\* the loaded seen set and has saved the state with that set
C24_Witness ==
    /\ pc = "exit" /\ exit = "ok" /\ cfg.IGNORE_DEDUPE
    /\ seen_hashes # {}
    /\ EmittedFps \cap seen_hashes # {}
    /\ file.kind = "object" /\ file.data.seen_hashes = seen_hashes
    /\ file.data.backfill_done

\* the host of an absolute URL of the model, as written
HostOf(url) == Slice(url, 8, NetlocEnd(url, 8))

\* the host is an allowed domain or a subdomain of one
InsideDomains(url, allowed) ==
    \E a \in allowed :
      \/ HostOf(url) = a
      \/ \E n \in 1 .. Len(HostOf(url)) :
           /\ At(HostOf(url), n) = "."
           /\ SubSeq(HostOf(url), n + 1, Len(HostOf(url))) = a

\* the URLs of the model whose host is inside ALLOWED_DISTRICT_DOMAINS
InsideUrls == {u \in UrlSet : InsideDomains(u, ALLOWED_DISTRICT_DOMAINS)}

\* the URLs at link depth at most n from a start URL of the call
RECURSIVE WithinDepth(_)
WithinDepth(n) ==
    IF n = 0 THEN {input.start_urls[k] : k \in 1 .. Len(input.start_urls)}
    ELSE LET near == WithinDepth(n - 1)
         IN  near \cup {CrawlUrls[e[2]] : e \in {e \in input.graph : CrawlUrls[e[1]] \in near}}

CrawlBounded ==
    input.fn = "crawl" =>
      /\ \A i, j \in 1 .. Len(fetches) : fetches[i].url = fetches[j].url => i = j
      /\ \A i \in 1 .. Len(fetches) :
           /\ fetches[i].url \in InsideUrls
           /\ fetches[i].depth <= input.max_depth
           /\ fetches[i].url \in WithinDepth(fetches[i].depth)
      /\ Len(fetches) <= input.max_pages
      /\ output.fn = "crawl_district" =>
           \A i, j \in 1 .. Len(output.out) :
             output.out[i].url = output.out[j].url => i = j

DatedSinceEpoch(d) ==
    /\ d.meeting_dt # NoDate
    /\ DayKey(Dt(EPOCH_YEAR, 1, 1, 0)) <= DayKey(d.meeting_dt)
    /\ DayKey(d.meeting_dt) <= DayKey(now)

\* C26: under successful default runs on an intact state file, once the
\* scan loop of a run is over, every mention of every document that the run
\* discovered with text and whose meeting date lies between 2021-01-01 and
\* the run's clock reading has been emitted, by this run or by an earlier
\* one.
C26_NoMatchLostToWindow ==
    (ScanOver /\ steady /\ ~tampered) =>
      \A i \in 1 .. Len(items) :
        (texts[i] = "text" /\ DatedSinceEpoch(Doc(i)))
        => DocFps(Doc(i)) \subseteq (EmittedFps \cup reported)

\* the run ends at the delivery of the report: the settings are missing or
\* send_email raises
FailsAtDelivery ==
    pc = "write" /\ pc' = "exit" /\ exit' \in {"fatal: email settings", "fatal: send"}

\* C27: a run that fails at the delivery of its report leaves the state
\* file as it was.
C27_UndeliveredRunLeavesState == [][FailsAtDelivery => file' = file]_vars

BackfillDone(f) == f.kind = "object" /\ f.data.backfill_done

\* C28: the state file gets backfill_done = true only from a run whose
\* window was the full historical window [2021-01-01, now].
C28_BackfillDoneOnlyAfterFullWindow ==
    [][(~BackfillDone(file) /\ BackfillDone(file')) => range = EpochWindow]_vars

NotAfterToday(dt) == toordinal(dt) <= toordinal(Today)

\* the candidate pool of the call
PoolOfCall ==
    IF input.fn = "cands" THEN input.cands
    ELSE candidate_pool(input.text, input.title, input.url, Today)

\* C29: when the candidate pool holds a date that is not after today, the
\* date returned is not after today.
C29_NonFuturePreferred ==
    output.fn \in {"_best_candidate", "guess_meeting_date"} =>
      ((\E k \in 1 .. Len(PoolOfCall) : NotAfterToday(PoolOfCall[k][1]))
       => (output.date # NoDate /\ NotAfterToday(output.date)))

RECURSIVE MentionTotal(_, _)
MentionTotal(records, k) ==
    IF k > Len(records) THEN 0
    ELSE Len(records[k].mentions) + MentionTotal(records, k + 1)

\* C30: when the scan loop of a run is over, rows_for_csv has one row per
\* mention of the records of results_for_email, every record has a mention,
\* the url of every row is the url of a record, there are as many records as
\* scan-log entries with status "matched", and the scan log has one entry for
\* every discovered document.
C30_OutputsConsistent ==
    ScanOver =>
      /\ Len(rows_for_csv) = MentionTotal(results_for_email, 1)
      /\ \A k \in 1 .. Len(results_for_email) : results_for_email[k].mentions # << >>
      /\ \A j \in 1 .. Len(rows_for_csv) :
           \E k \in 1 .. Len(results_for_email) : rows_for_csv[j][3] = results_for_email[k].url
      /\ Len(results_for_email) =
           Cardinality({i \in 1 .. Len(scanned_log) : scanned_log[i].status = "matched"})
      /\ Len(scanned_log) = Len(items)

\* the scan loop of a run over two documents is over: one document gave a
\* record with three mentions and three rows, the other only duplicates.
C30_Witness ==
    /\ ScanOver /\ Len(items) = 2
    /\ Len(results_for_email) = 1 /\ Len(results_for_email[1].mentions) = 3
    /\ Len(rows_for_csv) = 3
    /\ \E i \in 1 .. 2 : scanned_log[i].reason = "only duplicates (already reported)"
====
